---- MODULE Spec2Model ----
(***************************************************************************)
(* Clinic appointment booking backend: the appointment ledger, the booking *)
(* transaction db.createAppointment (server/models/db.js) as the sequence  *)
(* of its four awaited queries, the two slot queries                       *)
(* (db.getAvailableTimeSlots and GET /api/booking/available-slots), the    *)
(* request handler BookingController.createAppointment with the            *)
(* confirmation email it sends, and the rate limiter of db.query.          *)
(*                                                                         *)
(* Strings that the code formats, parses or compares (times) are sequences *)
(* of character codes, so that padStart, split, Number and the JavaScript  *)
(* string comparison are modelled by what they do.  A calendar date        *)
(* 'YYYY-MM-DD' is the triple <<year, month, day>> of its fields.          *)
(***************************************************************************)
EXTENDS Integers, Sequences, FiniteSets, TLC

VARIABLES
    services,        \* table services: service_id -> row
    business_hours,  \* table business_hours: day_of_week -> row (or NoRow)
    blocked_dates,   \* table blocked_dates: set of dates
    appointments,    \* table appointments: sequence of rows, id = position
    tz,              \* host timezone offset, minutes east of UTC
    call,            \* per request: the db.createAppointment call in flight
    started,         \* number of db.createAppointment calls started so far
    slotQuery,       \* the outcome of the last slot query
    datesQuery,      \* the outcome of the last available-dates request
    req,             \* the HTTP request BookingController.createAppointment serves
    mail,            \* the sendBookingConfirmation call of that request
    slotReq,         \* the request BookingController.getAvailableTimeSlots serves
    timeText,        \* a time of day, its 12-hour text, and that text parsed
    rateLimitStore,  \* rateLimitStore of db.js: identifier -> timestamps
    now,             \* Date.now(), in milliseconds
    lastQuery        \* the last db.query call: its identifier, how it ended

vars == <<services, business_hours, blocked_dates, appointments, tz, call,
          started, slotQuery, datesQuery, req, mail, slotReq, timeText,
          rateLimitStore, now, lastQuery>>

\* the state of the controller and of the rate limiter of db.query
controllerVars == <<req, mail, slotReq, timeText>>
limiterVars == <<rateLimitStore, now, lastQuery>>

(***************************************************************************)
(* Bounds of the model.                                                    *)
(***************************************************************************)
MaxCalls == 2

Procs == {"r1", "r2"}

(***************************************************************************)
(* JavaScript strings and numbers.                                         *)
(***************************************************************************)
Chr0 == <<48>>
Colon == <<58>>

\* Number.prototype.toString() of a non-negative integer
RECURSIVE NumToString(_)
NumToString(n) ==
    IF n < 10 THEN <<48 + n>>
    ELSE NumToString(n \div 10) \o <<48 + (n % 10)>>

\* String.prototype.padStart(2, '0')
PadStart2(s) == IF Len(s) >= 2 THEN s ELSE Chr0 \o s

\* Number(s) / parseInt(s) of a string of decimal digits
RECURSIVE ToNumber(_)
ToNumber(s) ==
    IF s = <<>> THEN 0
    ELSE 10 * ToNumber(SubSeq(s, 1, Len(s) - 1)) + (s[Len(s)] - 48)

\* String.prototype.split(':')
RECURSIVE SplitColon(_)
SplitColon(s) ==
    IF \A i \in 1..Len(s) : s[i] # 58 THEN <<s>>
    ELSE LET i == CHOOSE k \in 1..Len(s) :
                      s[k] = 58 /\ \A j \in 1..(k - 1) : s[j] # 58
         IN <<SubSeq(s, 1, i - 1)>> \o SplitColon(SubSeq(s, i + 1, Len(s)))

\* a < b on JavaScript strings: lexicographic on the code units
RECURSIVE StrLess(_, _)
StrLess(a, b) ==
    IF b = <<>> THEN FALSE
    ELSE IF a = <<>> THEN TRUE
    ELSE IF Head(a) # Head(b) THEN Head(a) < Head(b)
    ELSE StrLess(Tail(a), Tail(b))

IsDigit(c) == c >= 48 /\ c <= 57

\* /^\d{2}:\d{2}:\d{2}$/
TimeRegex(s) ==
    /\ Len(s) = 8
    /\ \A i \in {1, 2, 4, 5, 7, 8} : IsDigit(s[i])
    /\ s[3] = 58 /\ s[6] = 58

\* `${h.toString().padStart(2,'0')}:${m.toString().padStart(2,'0')}:${sec}`
FormatTime(h, m, sec) ==
    PadStart2(NumToString(h)) \o Colon \o PadStart2(NumToString(m))
        \o Colon \o sec

\* A TIME value of MySQL as seconds: how the server compares TIME columns
\* with the 'HH:MM:SS' parameters of a statement.
SqlTime(s) ==
    LET p == SplitColon(s)
    IN ToNumber(p[1]) * 3600 + ToNumber(p[2]) * 60 + ToNumber(p[3])

(***************************************************************************)
(* Calendar: JavaScript Date on a host whose local time is UTC + tz.       *)
(* A Date is its time value in minutes since the epoch.                    *)
(***************************************************************************)
\* days from 1970-01-01 to the civil date y-m-d (proleptic Gregorian)
DaysFromCivil(y, m, d) ==
    LET yy  == IF m <= 2 THEN y - 1 ELSE y
        era == yy \div 400
        yoe == yy - era * 400
        mp  == IF m > 2 THEN m - 3 ELSE m + 9
        doy == ((153 * mp + 2) \div 5) + d - 1
        doe == yoe * 365 + (yoe \div 4) - (yoe \div 100) + doy
    IN era * 146097 + doe - 719468

\* new Date('YYYY-MM-DD'): a date-only ISO string is midnight UTC
NewDateFromIso(date) == DaysFromCivil(date[1], date[2], date[3]) * 1440

\* new Date(year, monthIndex, day): midnight of the host's local time
NewDateLocal(y, monthIndex, d, zone) ==
    DaysFromCivil(y, monthIndex + 1, d) * 1440 - zone

\* Date.prototype.getDay(): weekday of the host's local calendar day
GetDay(t, zone) == (((t + zone) \div 1440) + 4) % 7

dayNames == <<"Sunday", "Monday", "Tuesday", "Wednesday", "Thursday",
              "Friday", "Saturday">>

\* parseLocalDate(dateStr) of date.utils.js
parseLocalDate(date, zone) == NewDateLocal(date[1], date[2] - 1, date[3], zone)

(***************************************************************************)
(* The tables and the inputs the model draws from.                         *)
(***************************************************************************)
\* the text 'HH:MM:00' of a time of day
Lit(h, m) == <<48 + (h \div 10), 48 + (h % 10), 58, 48 + (m \div 10),
               48 + (m % 10), 58, 48, 48>>

\* the text 'HH:MM' (no seconds)
LitShort(h, m) == SubSeq(Lit(h, m), 1, 5)

Sunday1 == <<2025, 6, 1>>     \* 2025-06-01, a Sunday
Monday2 == <<2025, 6, 2>>     \* 2025-06-02, a Monday
Dates == {Sunday1, Monday2}

\* the weekday of the calendar, for the dates above
CalendarWeekday(date) == IF date = Sunday1 THEN "Sunday" ELSE "Monday"

TzOffsets == {-300, 0, 600}

ServiceRows ==
    [cleaning  |-> [duration_minutes |-> 30, is_active |-> TRUE],
     crown     |-> [duration_minutes |-> 45, is_active |-> TRUE],
     whitening |-> [duration_minutes |-> 60, is_active |-> FALSE]]

\* service ids of requests: the rows above and one id of no row
ServiceIds == DOMAIN ServiceRows \cup {"implant"}

NoRow == [is_open |-> FALSE, open_time |-> <<>>, close_time |-> <<>>,
          exists |-> FALSE]

HoursRow(open, from, to) ==
    [is_open |-> open, open_time |-> from, close_time |-> to, exists |-> TRUE]

\* weekdays 09:00-11:00, closed on Sunday
HoursWeek ==
    [d \in {dayNames[i] : i \in 1..7} |->
        IF d = "Sunday" THEN HoursRow(FALSE, Lit(0, 0), Lit(0, 0))
        ELSE HoursRow(TRUE, Lit(9, 0), Lit(11, 0))]

\* as HoursWeek, and open on Sunday 08:00-10:00
HoursSunday ==
    [HoursWeek EXCEPT !["Sunday"] = HoursRow(TRUE, Lit(8, 0), Lit(10, 0))]

\* on the grid, off the grid, and without seconds
StartTimes == {Lit(9, 0), Lit(9, 45), LitShort(9, 0)}

BookingInputs ==
    [serviceId : ServiceIds, appointmentDate : Dates, startTime : StartTimes]

Row(id, serviceId, date, from, to, status) ==
    [id |-> id, service_id |-> serviceId, appointment_date |-> date,
     start_time |-> from, end_time |-> to, status |-> status]

\* ledgers before the first request: empty, or one cancelled appointment
InitLedgers ==
    {<<>>,
     <<Row(1, "cleaning", Monday2, Lit(9, 0), Lit(9, 30), "cancelled")>>}

(***************************************************************************)
(* db.createAppointment: validation, then four awaited queries.            *)
(***************************************************************************)
NoData == [serviceId |-> "", appointmentDate |-> <<0, 0, 0>>,
           startTime |-> <<>>]

Ok(id) == [ok |-> TRUE, insertId |-> id, message |-> ""]
Err(msg) == [ok |-> FALSE, insertId |-> 0, message |-> msg]
NoResult == [ok |-> FALSE, insertId |-> 0, message |-> "pending"]

Idle == [pc |-> "idle", bookingData |-> NoData, serviceDuration |-> 0,
         endTime |-> <<>>, result |-> NoResult]

\* the message of the first failing validation of bookingData, or "" if none
\* (fullName, email, phone and the date are well-formed in every request of
\* the model)
ValidationError(bookingData) ==
    IF bookingData.serviceId = "" THEN "Missing required field: serviceId"
    ELSE IF bookingData.startTime = <<>>
        THEN "Missing required field: startTime"
    ELSE IF ~TimeRegex(bookingData.startTime) THEN "Invalid time format"
    ELSE ""

\* ServiceQuery without the is_active condition
ServiceQueryNoActive(serviceId) ==
    IF serviceId \in DOMAIN services THEN <<services[serviceId]>> ELSE <<>>

\* SELECT duration_minutes FROM services WHERE service_id = ? AND is_active
ServiceQuery(serviceId) ==
    IF serviceId \in DOMAIN services /\ services[serviceId].is_active
    THEN <<services[serviceId]>>
    ELSE <<>>

\* EndTimeOf with the hour of the start in place of the hour of the end
EndTimeOfStartHour(startTime, serviceDuration) ==
    LET p == SplitColon(startTime)
        hours == ToNumber(p[1])
        minutes == ToNumber(p[2])
        endMins == (hours * 60 + minutes + serviceDuration) % 60
    IN FormatTime(hours, endMins, PadStart2(NumToString(ToNumber(p[3]))))

\* endTime of createAppointment: start + duration, rendered HH:MM:SS
EndTimeOf(startTime, serviceDuration) ==
    LET p == SplitColon(startTime)
        hours == ToNumber(p[1])
        minutes == ToNumber(p[2])
        startMinutes == hours * 60 + minutes
        endMinutes == startMinutes + serviceDuration
        endHours == endMinutes \div 60
        endMins == endMinutes % 60
    IN FormatTime(endHours, endMins, PadStart2(NumToString(ToNumber(p[3]))))

\* AvailabilityWhere keeping only the third alternative: the row lies inside
\* the requested interval
AvailabilityWhereInside(row, date, startTime, endTime) ==
    LET st == SqlTime(row.start_time)
        en == SqlTime(row.end_time)
        s  == SqlTime(startTime)
        e  == SqlTime(endTime)
    IN /\ row.appointment_date = date
       /\ row.status # "cancelled"
       /\ (st >= s /\ en <= e)

\* the WHERE clause of availabilityQuery for one row, with its parameters
\* [date, endTime, startTime, endTime, startTime, startTime, endTime]
AvailabilityWhere(row, date, startTime, endTime) ==
    LET st == SqlTime(row.start_time)
        en == SqlTime(row.end_time)
        s  == SqlTime(startTime)
        e  == SqlTime(endTime)
    IN /\ row.appointment_date = date
       /\ row.status # "cancelled"
       /\ \/ (st <= e /\ en > s)
          \/ (st < e /\ en >= s)
          \/ (st >= s /\ en <= e)

\* existingAppointments: the rows availabilityQuery selects
AvailabilityQuery(date, startTime, endTime) ==
    {i \in 1..Len(appointments) :
        AvailabilityWhere(appointments[i], date, startTime, endTime)}

\* BlockedQuery selecting no row
BlockedQueryNoRows(date) == {d \in blocked_dates : FALSE}

\* SELECT 1 FROM blocked_dates WHERE blocked_date = ?
BlockedQuery(date) == {d \in blocked_dates : d = date}

\* the row the INSERT adds; insertId is the next AUTO_INCREMENT value
InsertRow(c) ==
    Row(Len(appointments) + 1, c.bookingData.serviceId,
        c.bookingData.appointmentDate, c.bookingData.startTime, c.endTime,
        "confirmed")

Finish(p, res) ==
    call' = [call EXCEPT ![p] = [@ EXCEPT !.pc = "done", !.result = res]]

\* the call of createAppointment(bookingData) at its first await, or
\* returned with the validation error
Entered(bookingData) ==
    LET c == [Idle EXCEPT !.bookingData = bookingData]
        e == ValidationError(bookingData)
    IN IF e # "" THEN [c EXCEPT !.pc = "done", !.result = Err(e)]
       ELSE [c EXCEPT !.pc = "service-lookup"]

\* createAppointment(bookingData) up to its first await
CreateAppointment(p, bookingData) ==
    /\ call[p].pc \in {"idle", "done"}
    /\ started < MaxCalls
    /\ started' = started + 1
    /\ call' = [call EXCEPT ![p] = Entered(bookingData)]
    /\ UNCHANGED <<controllerVars, limiterVars, datesQuery>>
    /\ UNCHANGED <<services, business_hours, blocked_dates, appointments, tz,
                   slotQuery>>

\* db.query throws: rate limit exceeded, or pool.execute rejects
QueryThrows(p) ==
    /\ call[p].pc \in {"service-lookup", "availability-check",
                       "blocked-check", "appointment-insert"}
    /\ Finish(p, Err("Rate limit exceeded"))
    /\ UNCHANGED <<controllerVars, limiterVars, datesQuery>>
    /\ UNCHANGED <<services, business_hours, blocked_dates, appointments, tz,
                   started, slotQuery>>

\* the service query returns
ServiceLookup(p) ==
    /\ call[p].pc = "service-lookup"
    /\ LET rows == ServiceQuery(call[p].bookingData.serviceId)
       IN IF rows = <<>>
          THEN Finish(p, Err("Invalid or inactive service"))
          ELSE call' = [call EXCEPT ![p] =
                  [@ EXCEPT !.pc = "availability-check",
                            !.serviceDuration = rows[1].duration_minutes,
                            !.endTime = EndTimeOf(call[p].bookingData.startTime,
                                                  rows[1].duration_minutes)]]
    /\ UNCHANGED <<controllerVars, limiterVars, datesQuery>>
    /\ UNCHANGED <<services, business_hours, blocked_dates, appointments, tz,
                   started, slotQuery>>

\* AvailabilityCheck with the blocked-date query ahead of the availability
\* query
AvailabilityCheckAfterBlocked(p) ==
    /\ call[p].pc = "availability-check"
    /\ LET c == call[p]
           existingAppointments ==
               AvailabilityQuery(c.bookingData.appointmentDate,
                                 c.bookingData.startTime, c.endTime)
       IN IF BlockedQuery(c.bookingData.appointmentDate) # {}
          THEN Finish(p, Err("Selected date is not available for booking"))
          ELSE IF existingAppointments # {}
          THEN Finish(p, Err("Selected time slot is already booked"))
          ELSE call' = [call EXCEPT ![p] = [@ EXCEPT !.pc = "blocked-check"]]
    /\ UNCHANGED <<controllerVars, limiterVars, datesQuery>>
    /\ UNCHANGED <<services, business_hours, blocked_dates, appointments, tz,
                   started, slotQuery>>

\* the availability query returns
AvailabilityCheck(p) ==
    /\ call[p].pc = "availability-check"
    /\ LET c == call[p]
           existingAppointments ==
               AvailabilityQuery(c.bookingData.appointmentDate,
                                 c.bookingData.startTime, c.endTime)
       IN IF existingAppointments # {}
          THEN Finish(p, Err("Selected time slot is already booked"))
          ELSE call' = [call EXCEPT ![p] = [@ EXCEPT !.pc = "blocked-check"]]
    /\ UNCHANGED <<controllerVars, limiterVars, datesQuery>>
    /\ UNCHANGED <<services, business_hours, blocked_dates, appointments, tz,
                   started, slotQuery>>

\* the blocked-date query returns
BlockedCheck(p) ==
    /\ call[p].pc = "blocked-check"
    /\ IF BlockedQuery(call[p].bookingData.appointmentDate) # {}
       THEN Finish(p, Err("Selected date is not available for booking"))
       ELSE call' = [call EXCEPT ![p] = [@ EXCEPT !.pc = "appointment-insert"]]
    /\ UNCHANGED <<controllerVars, limiterVars, datesQuery>>
    /\ UNCHANGED <<services, business_hours, blocked_dates, appointments, tz,
                   started, slotQuery>>

\* the INSERT executes and createAppointment returns result.insertId
AppointmentInsert(p) ==
    /\ call[p].pc = "appointment-insert"
    /\ appointments' = Append(appointments, InsertRow(call[p]))
    /\ Finish(p, Ok(Len(appointments) + 1))
    /\ UNCHANGED <<controllerVars, limiterVars, datesQuery>>
    /\ UNCHANGED <<services, business_hours, blocked_dates, tz, started,
                   slotQuery>>


(***************************************************************************)
(* The slot queries.                                                       *)
(***************************************************************************)
\* AppointmentsQuery with end_time computed from the start and the duration
\* the service has now
AppointmentsQueryLiveEnd(date) ==
    LET rows == SelectSeq(appointments,
                    LAMBDA r : r.appointment_date = date
                                   /\ r.status # "cancelled")
    IN [i \in 1..Len(rows) |->
           [rows[i] EXCEPT !.end_time =
               EndTimeOf(rows[i].start_time,
                         services[rows[i].service_id].duration_minutes)]]

\* SELECT start_time, end_time FROM appointments
\* WHERE appointment_date = ? AND status != 'cancelled'
AppointmentsQuery(date) ==
    SelectSeq(appointments,
              LAMBDA r : r.appointment_date = date /\ r.status # "cancelled")

\* parseInt(t[0]) * 60 + parseInt(t[1]) of t = time.split(':')
ParseMinutes(time) ==
    LET t == SplitColon(time)
    IN ToNumber(t[1]) * 60 + ToNumber(t[2])

\* the 'HH:MM:00' text the slot loops build from a number of minutes
SlotText(minutes) == FormatTime(minutes \div 60, minutes % 60, <<48, 48>>)

\* SlotOverlaps with bookingStart in place of bookingEnd
SlotOverlapsStartOnly(timeSlot, endTimeSlot, booking) ==
    StrLess(timeSlot, booking.start_time)
        /\ StrLess(booking.start_time, endTimeSlot)

\* (timeSlot < bookingEnd) && (endTimeSlot > bookingStart)
SlotOverlaps(timeSlot, endTimeSlot, booking) ==
    StrLess(timeSlot, booking.end_time)
        /\ StrLess(booking.start_time, endTimeSlot)

\* isOverlapping of the slot loops
IsOverlapping(timeSlot, endTimeSlot, bookedSlots) ==
    \E i \in 1..Len(bookedSlots) :
        SlotOverlaps(timeSlot, endTimeSlot, bookedSlots[i])

\* hasProperBuffer of db.getAvailableTimeSlots
HasProperBuffer(endMinutes, serviceDuration, bookedSlots) ==
    LET bufferMinutes == IF serviceDuration % 30 = 0 THEN 0
                         ELSE 30 - (serviceDuration % 30)
        endTimeSlot == SlotText(endMinutes)
        bufferEndTimeSlot == SlotText(endMinutes + bufferMinutes)
    IN ~(/\ bufferMinutes > 0
         /\ \E i \in 1..Len(bookedSlots) :
               /\ StrLess(bookedSlots[i].start_time, bufferEndTimeSlot)
               /\ ~StrLess(bookedSlots[i].start_time, endTimeSlot))

\* whether the loop body of db.getAvailableTimeSlots pushes the slot at minutes
DbPushes(minutes, closeMinutes, serviceDuration, bookedSlots) ==
    LET endMinutes == minutes + serviceDuration
    IN /\ ~(endMinutes > closeMinutes)
       /\ ~IsOverlapping(SlotText(minutes), SlotText(endMinutes), bookedSlots)
       /\ HasProperBuffer(endMinutes, serviceDuration, bookedSlots)

\* whether the loop body of the route handler pushes the slot at minutes
RoutePushes(minutes, closeMinutes, serviceDuration, bookedSlots) ==
    LET endMinutes == minutes + serviceDuration
    IN /\ ~(endMinutes > closeMinutes)
       /\ ~IsOverlapping(SlotText(minutes), SlotText(endMinutes), bookedSlots)

\* SlotLoop with minutes += 15 in place of minutes += 30
RECURSIVE SlotLoopQuarter(_, _, _, _, _)
SlotLoopQuarter(op, minutes, closeMinutes, serviceDuration, bookedSlots) ==
    IF ~(minutes < closeMinutes) THEN <<>>
    ELSE (IF (IF op = "db"
              THEN DbPushes(minutes, closeMinutes, serviceDuration, bookedSlots)
              ELSE RoutePushes(minutes, closeMinutes, serviceDuration,
                               bookedSlots))
          THEN <<SlotText(minutes)>> ELSE <<>>)
         \o SlotLoopQuarter(op, minutes + 15, closeMinutes, serviceDuration,
                            bookedSlots)

\* for (let minutes = openMinutes; minutes < closeMinutes; minutes += 30)
RECURSIVE SlotLoop(_, _, _, _, _)
SlotLoop(op, minutes, closeMinutes, serviceDuration, bookedSlots) ==
    IF ~(minutes < closeMinutes) THEN <<>>
    ELSE (IF (IF op = "db"
              THEN DbPushes(minutes, closeMinutes, serviceDuration, bookedSlots)
              ELSE RoutePushes(minutes, closeMinutes, serviceDuration,
                               bookedSlots))
          THEN <<SlotText(minutes)>> ELSE <<>>)
         \o SlotLoop(op, minutes + 30, closeMinutes, serviceDuration,
                     bookedSlots)

\* dayNames[new Date(sanitizedDate).getDay()] of db.getAvailableTimeSlots
DbDayOfWeek(date, zone) == dayNames[GetDay(NewDateFromIso(date), zone) + 1]

\* dayNames[parseLocalDate(date).getDay()] of the route handler
RouteDayOfWeek(date, zone) == dayNames[GetDay(parseLocalDate(date, zone), zone) + 1]

SlotOutcome(kind, slots, msg, day) ==
    [outcome |-> kind, availableSlots |-> slots, message |-> msg,
     dayOfWeek |-> day]

\* db.getAvailableTimeSlots(date, serviceId): what it returns or throws
DbGetAvailableTimeSlots(date, serviceId) ==
    LET dayOfWeek == DbDayOfWeek(date, tz)
        businessHours == business_hours[dayOfWeek]
        service == ServiceQuery(serviceId)
    IN IF BlockedQuery(date) # {}
           THEN SlotOutcome("return", <<>>, "", "")
       ELSE IF ~businessHours.exists \/ ~businessHours.is_open
           THEN SlotOutcome("return", <<>>, "", dayOfWeek)
       ELSE IF service = <<>>
           THEN SlotOutcome("throw", <<>>, "Service not found or inactive",
                            dayOfWeek)
       ELSE IF businessHours.open_time = <<>> \/ businessHours.close_time = <<>>
           THEN SlotOutcome("throw", <<>>,
                            "Cannot read properties of null (reading 'split')",
                            dayOfWeek)
       ELSE SlotOutcome("return",
                SlotLoop("db", ParseMinutes(businessHours.open_time),
                         ParseMinutes(businessHours.close_time),
                         service[1].duration_minutes, AppointmentsQuery(date)),
                "", dayOfWeek)

\* GET /api/booking/available-slots?date&serviceId: status and body
RouteAvailableSlots(date, serviceId) ==
    LET dayOfWeek == RouteDayOfWeek(date, tz)
        businessHours == business_hours[dayOfWeek]
        service == ServiceQuery(serviceId)
        serviceDuration == IF service[1].duration_minutes # 0
                           THEN service[1].duration_minutes ELSE 30
    IN IF BlockedQuery(date) # {}
           THEN SlotOutcome("200", <<>>,
                            "This date is not available for booking", "")
       ELSE IF ~businessHours.exists \/ ~businessHours.is_open
           THEN SlotOutcome("200", <<>>, "The office is closed on this day",
                            dayOfWeek)
       ELSE IF service = <<>>
           THEN SlotOutcome("404", <<>>, "Service not found or inactive",
                            dayOfWeek)
       ELSE IF businessHours.open_time = <<>> \/ businessHours.close_time = <<>>
           THEN SlotOutcome("500", <<>>,
                            "Failed to fetch available time slots", dayOfWeek)
       ELSE SlotOutcome("200",
                SlotLoop("route", ParseMinutes(businessHours.open_time),
                         ParseMinutes(businessHours.close_time),
                         serviceDuration, AppointmentsQuery(date)),
                "", dayOfWeek)

NoQuery == [op |-> "none", date |-> <<0, 0, 0>>, serviceId |-> "",
            res |-> SlotOutcome("none", <<>>, "", "")]

\* a call of db.getAvailableTimeSlots completes
DbSlotQuery(date, serviceId) ==
    /\ slotQuery' = [op |-> "db", date |-> date, serviceId |-> serviceId,
                     res |-> DbGetAvailableTimeSlots(date, serviceId)]
    /\ UNCHANGED <<controllerVars, limiterVars, datesQuery>>
    /\ UNCHANGED <<services, business_hours, blocked_dates, appointments, tz,
                   call, started>>

\* a GET /api/booking/available-slots request is answered
RouteSlotQuery(date, serviceId) ==
    /\ slotQuery' = [op |-> "route", date |-> date, serviceId |-> serviceId,
                     res |-> RouteAvailableSlots(date, serviceId)]
    /\ UNCHANGED <<controllerVars, limiterVars, datesQuery>>
    /\ UNCHANGED <<services, business_hours, blocked_dates, appointments, tz,
                   call, started>>

\* one of the queries of a slot query throws (db.query: rate limit, storage):
\* db.getAvailableTimeSlots rethrows, the route handler answers 500
SlotQueryThrows(op) ==
    /\ slotQuery' = [NoQuery EXCEPT !.op = op, !.res =
                        IF op = "db"
                        THEN SlotOutcome("throw", <<>>, "Rate limit exceeded", "")
                        ELSE SlotOutcome("500", <<>>,
                                 "Failed to fetch available time slots", "")]
    /\ UNCHANGED <<controllerVars, limiterVars, datesQuery>>
    /\ UNCHANGED <<services, business_hours, blocked_dates, appointments, tz,
                   call, started>>

(***************************************************************************)
(* GET /api/booking/available-dates?year&month&serviceId (routes/booking.js).*)
(* Every request of the model carries the three parameters and a numeric   *)
(* year; today is the host's local calendar day when the request is served.*)
(***************************************************************************)
\* new Date(yearNum, monthNum + 1, 0).getDate(): the last day of the month
DaysInMonth(yearNum, monthNum) ==
    IF monthNum = 11
    THEN DaysFromCivil(yearNum + 1, 1, 1) - DaysFromCivil(yearNum, 12, 1)
    ELSE DaysFromCivil(yearNum, monthNum + 2, 1)
             - DaysFromCivil(yearNum, monthNum + 1, 1)

\* blockedDates: the blocked dates of the month, keyed by date_str
BlockedDatesOfMonth(yearNum, monthNum) ==
    {b \in blocked_dates : b[1] = yearNum /\ b[2] = monthNum + 1}

\* appointmentsByDate[dateStr] || []: the appointments of the month that are
\* not cancelled, grouped by date_str
AppointmentsByDate(yearNum, monthNum, dateStr) ==
    SelectSeq(appointments,
              LAMBDA r : /\ r.appointment_date[1] = yearNum
                         /\ r.appointment_date[2] = monthNum + 1
                         /\ r.status # "cancelled"
                         /\ r.appointment_date = dateStr)

\* HasAvailableSlot taking every slot that starts before closing time
HasAvailableSlotUnchecked(minutes, closeMinutes, duration, booked) ==
    minutes < closeMinutes

\* hasAvailableSlot: the inner loop stops at the first slot that ends by
\* closing time and overlaps no appointment of the day
RECURSIVE HasAvailableSlot(_, _, _, _)
HasAvailableSlot(minutes, closeMinutes, serviceDuration, dayAppointments) ==
    IF ~(minutes < closeMinutes) THEN FALSE
    ELSE LET endMinutes == minutes + serviceDuration
         IN IF /\ ~(endMinutes > closeMinutes)
               /\ ~IsOverlapping(SlotText(minutes), SlotText(endMinutes),
                                 dayAppointments)
            THEN TRUE
            ELSE HasAvailableSlot(minutes + 30, closeMinutes, serviceDuration,
                                  dayAppointments)

\* one pass of the loop over the days: the day is pushed, skipped, or
\* businessHoursByDay[dayName] is undefined and reading .isOpen throws
DayOutcome(yearNum, monthNum, day, today, serviceDuration) ==
    LET date == NewDateLocal(yearNum, monthNum, day, tz)
        dateStr == <<yearNum, monthNum + 1, day>>
        dayName == dayNames[GetDay(date, tz) + 1]
        businessHours == business_hours[dayName]
    IN IF date < today \/ dateStr \in BlockedDatesOfMonth(yearNum, monthNum)
           THEN "skip"
       ELSE IF ~businessHours.exists THEN "throw"
       ELSE IF ~businessHours.is_open THEN "skip"
       ELSE IF businessHours.open_time = <<>> \/ businessHours.close_time = <<>>
           THEN "skip"
       ELSE IF HasAvailableSlot(ParseMinutes(businessHours.open_time),
                                ParseMinutes(businessHours.close_time),
                                serviceDuration,
                                AppointmentsByDate(yearNum, monthNum, dateStr))
           THEN "push"
       ELSE "skip"

\* for (let day = 1; day <= daysInMonth; day++): availableDates
RECURSIVE DaysLoop(_, _, _, _, _, _)
DaysLoop(day, daysInMonth, yearNum, monthNum, today, serviceDuration) ==
    IF ~(day <= daysInMonth) THEN <<>>
    ELSE (IF DayOutcome(yearNum, monthNum, day, today, serviceDuration) = "push"
          THEN <<day>> ELSE <<>>)
         \o DaysLoop(day + 1, daysInMonth, yearNum, monthNum, today,
                     serviceDuration)

DatesOutcome(status, dates, msg) ==
    [status |-> status, availableDates |-> dates, message |-> msg]

\* the handler: status and body.  todayDate is the local day of new Date()
AvailableDates(year, month, serviceId, todayDate) ==
    LET yearNum == year
        monthNum == month - 1
        service == ServiceQuery(serviceId)
        serviceDuration == IF service[1].duration_minutes # 0
                           THEN service[1].duration_minutes ELSE 30
        daysInMonth == DaysInMonth(yearNum, monthNum)
        today == NewDateLocal(todayDate[1], todayDate[2] - 1, todayDate[3], tz)
    IN IF monthNum < 0 \/ monthNum > 11
           THEN DatesOutcome(400, <<>>, "Invalid year or month")
       ELSE IF service = <<>>
           THEN DatesOutcome(404, <<>>, "Service not found or inactive")
       ELSE IF \E day \in 1..daysInMonth :
                  DayOutcome(yearNum, monthNum, day, today, serviceDuration)
                      = "throw"
           THEN DatesOutcome(500, <<>>, "Failed to fetch available dates")
       ELSE DatesOutcome(200,
                DaysLoop(1, daysInMonth, yearNum, monthNum, today,
                         serviceDuration), "")

NoDates == [op |-> "none", year |-> 0, month |-> 0, serviceId |-> "",
            today |-> <<0, 0, 0>>, res |-> DatesOutcome(0, <<>>, "")]

\* a GET /api/booking/available-dates request is answered
AvailableDatesQuery(year, month, serviceId, todayDate) ==
    /\ datesQuery' = [op |-> "dates", year |-> year, month |-> month,
                      serviceId |-> serviceId, today |-> todayDate,
                      res |-> AvailableDates(year, month, serviceId, todayDate)]
    /\ UNCHANGED <<services, business_hours, blocked_dates, appointments, tz,
                   call, started, slotQuery, controllerVars, limiterVars>>

\* one of the four queries of the handler throws (db.query: rate limit,
\* storage): the catch block answers 500
AvailableDatesThrows ==
    /\ datesQuery' = [NoDates EXCEPT !.op = "dates", !.res =
                         DatesOutcome(500, <<>>,
                                      "Failed to fetch available dates")]
    /\ UNCHANGED <<services, business_hours, blocked_dates, appointments, tz,
                   call, started, slotQuery, controllerVars, limiterVars>>

(***************************************************************************)
(* BookingController.createAppointment: the secured controller             *)
(* (controllers/booking.controller.js) and the fixed variant               *)
(* (routes/booking.js), with sendBookingConfirmation (utils/email.utils.js).*)
(* The request body carries service, date and time; name, email, phone and *)
(* notes are well-formed in every request of the model.                    *)
(***************************************************************************)
Variants == {"secured", "fixed"}

\* String.prototype.includes(c) for one character
Includes(s, c) == \E i \in 1..Len(s) : s[i] = c

\* String.prototype.split(c) for one character
RECURSIVE Split(_, _)
Split(s, c) ==
    IF ~Includes(s, c) THEN <<s>>
    ELSE LET i == CHOOSE k \in 1..Len(s) :
                      s[k] = c /\ \A j \in 1..(k - 1) : s[j] # c
         IN <<SubSeq(s, 1, i - 1)>> \o Split(SubSeq(s, i + 1, Len(s)), c)

\* isNaN(Number(s)), for strings of digits, letters and blanks
IsNaN(s) == \E i \in 1..Len(s) : ~IsDigit(s[i])

\* ([01]\d|2[0-3]) and ([0-5]\d)
HourDigits(a, b) == (a \in {48, 49} /\ IsDigit(b)) \/ (a = 50 /\ b \in 48..51)
SixtyDigits(a, b) == a \in 48..53 /\ IsDigit(b)

\* /^([01]\d|2[0-3]):([0-5]\d):([0-5]\d)$/
FullTimeRegex(s) ==
    /\ Len(s) = 8
    /\ HourDigits(s[1], s[2]) /\ s[3] = 58
    /\ SixtyDigits(s[4], s[5]) /\ s[6] = 58
    /\ SixtyDigits(s[7], s[8])

\* /^([01]\d|2[0-3]):([0-5]\d)(:([0-5]\d))?$/
OptionalSecondsRegex(s) ==
    \/ FullTimeRegex(s)
    \/ /\ Len(s) = 5
       /\ HourDigits(s[1], s[2]) /\ s[3] = 58
       /\ SixtyDigits(s[4], s[5])

\* body('time') of validateAppointment: the secured chain also demands
\* 800 <= hours * 100 + minutes < 1800
TimeIsValid(variant, time) ==
    IF variant = "secured"
    THEN /\ OptionalSecondsRegex(time)
         /\ LET p == SplitColon(time)
                timeNum == ToNumber(p[1]) * 100 + ToNumber(p[2])
            IN timeNum >= 800 /\ timeNum < 1800
    ELSE FullTimeRegex(time)

AM == <<65, 77>>
PM == <<80, 77>>

\* formatTimeString adding 12 hours to every PM time, 12 PM included
formatTimeStringAlwaysAdds(timeStr, period) ==
    LET parts == Split(timeStr, 32)
        spaced == period = <<>> /\ Includes(timeStr, 32)
        str == IF spaced THEN parts[1] ELSE timeStr
        per == IF spaced THEN parts[2] ELSE period
        hm == SplitColon(str)
    IN IF Len(hm) < 2 \/ IsNaN(hm[1]) \/ IsNaN(hm[2]) THEN Lit(0, 0)
       ELSE LET h == ToNumber(hm[1])
                hours == IF per = PM THEN h + 12
                         ELSE IF per = AM /\ h = 12 THEN 0
                         ELSE h
            IN FormatTime(hours, ToNumber(hm[2]), <<48, 48>>)

\* formatTimeString(timeStr, period) of date.utils.js; period <<>> is undefined
formatTimeString(timeStr, period) ==
    LET parts == Split(timeStr, 32)
        spaced == period = <<>> /\ Includes(timeStr, 32)
        str == IF spaced THEN parts[1] ELSE timeStr
        per == IF spaced THEN parts[2] ELSE period
        hm == SplitColon(str)
    IN IF Len(hm) < 2 \/ IsNaN(hm[1]) \/ IsNaN(hm[2]) THEN Lit(0, 0)
       ELSE LET h == ToNumber(hm[1])
                hours == IF per = PM /\ h # 12 THEN h + 12
                         ELSE IF per = AM /\ h = 12 THEN 0
                         ELSE h
            IN FormatTime(hours, ToNumber(hm[2]), <<48, 48>>)

\* FormattedTime appending ':30' in place of ':00'
FormattedTimeHalfMinute(time) ==
    IF time # <<>> /\ ~Includes(time, 58) THEN formatTimeString(time, <<>>)
    ELSE IF time # <<>> /\ Len(SplitColon(time)) = 2
        THEN time \o <<58, 51, 48>>
    ELSE time

\* formattedTime of createAppointment
FormattedTime(time) ==
    IF time # <<>> /\ ~Includes(time, 58) THEN formatTimeString(time, <<>>)
    ELSE IF time # <<>> /\ Len(SplitColon(time)) = 2
        THEN time \o <<58, 48, 48>>
    ELSE time

\* the times of request bodies: 'HH:MM' and 'HH:MM:SS' inside the hours the
\* secured chain accepts, 'HH:MM' outside them, and a time without a colon
BodyTimes == {LitShort(9, 0), LitShort(14, 0), Lit(9, 45), LitShort(19, 0),
              <<57>>}

Bodies == [service : ServiceIds, date : Dates, time : BodyTimes]

NoBody == [service |-> "", date |-> <<0, 0, 0>>, time |-> <<>>]

\* what res.status(s).json(...) sends; status 0: nothing sent yet
Response(status, message, appointmentId, emailConfirmationSent) ==
    [status |-> status, message |-> message, appointmentId |-> appointmentId,
     emailConfirmationSent |-> emailConfirmationSent]

NoResponse == Response(0, "", 0, FALSE)

NoRequest == [pc |-> "idle", variant |-> "secured", body |-> NoBody,
              formattedTime |-> <<>>, appointmentId |-> 0, res |-> NoResponse]

\* let retries = 2
MailRetries == 2

\* sendBookingConfirmation: not invoked.  attempts counts the sendMail
\* calls, lastError is the attempt whose error lastError holds (0: null)
NoMail == [pc |-> "none", retries |-> 0, attempts |-> 0, sent |-> 0,
           lastError |-> 0]

\* the request rq answered with r
Answer(rq, r) == [rq EXCEPT !.pc = "responded", !.res = r]

Respond(r) == req' = Answer(req, r)

\* rateLimitStore = new Map()
Identifiers == {"default", "blocked-date-check", "business-hours-check",
                "service-duration-check", "appointments-check"}

EmptyStore == [i \in Identifiers |-> <<>>]

\* db.query has not been called
NoDbQuery == [identifier |-> "", outcome |-> "none"]

\* the body of a response of BookingController.getAvailableTimeSlots
SlotResponse(status, message, availableSlots, totalSlots, returned) ==
    [status |-> status, message |-> message,
     availableSlots |-> availableSlots, totalSlots |-> totalSlots,
     returned |-> returned]

\* BookingController.getAvailableTimeSlots: not invoked.  responses counts
\* the responses sent on res
NoSlotRequest ==
    [pc |-> "idle", date |-> <<>>, serviceId |-> "",
     res |-> SlotResponse(0, "", <<>>, 0, 0), responses |-> 0]

\* no time of day has been formatted
NoTime == [pc |-> "none", input |-> <<>>, display |-> <<>>, back |-> <<>>]

\* no request is being served and db.query has not been called
Quiet ==
    /\ req = NoRequest
    /\ timeText = NoTime
    /\ slotReq = NoSlotRequest
    /\ mail = NoMail
    /\ rateLimitStore = EmptyStore
    /\ now = 0
    /\ lastQuery = NoDbQuery
    /\ datesQuery = NoDates

\* ServicesModel.getServiceById(serviceId): the active service of that id, or
\* null
GetServiceById(serviceId) ==
    IF ServiceQuery(serviceId) = <<>> THEN [found |-> FALSE, name |-> ""]
    ELSE [found |-> TRUE, name |-> serviceId]

\* BookingModel.checkRecentBooking(email, date, 5): either answer
CheckRecentBooking == BOOLEAN

\* the response of the catch (dbError) block; message.includes(...) is decided
\* on the messages db.createAppointment throws
CatchResponse(variant, message) ==
    IF message = "Selected time slot is already booked"
    THEN Response(409, "Selected time slot is no longer available", 0, FALSE)
    ELSE IF message = "Selected date is not available for booking"
    THEN Response(400, "Selected date is not available for booking", 0, FALSE)
    ELSE Response(500, IF variant = "secured"
                       THEN "Unable to process booking request"
                       ELSE "Unable to book appointment", 0, FALSE)

\* Created answering 500 when the confirmation was not sent
CreatedOnlyIfSent(appointmentId, emailSent) ==
    IF emailSent
    THEN Response(201, "Appointment booked successfully", appointmentId, TRUE)
    ELSE Response(500, "Unable to process booking request", 0, FALSE)

\* res.status(201).json({appointmentId, emailConfirmationSent: emailSent, ...})
Created(appointmentId, emailSent) ==
    Response(201, "Appointment booked successfully", appointmentId, emailSent)

\* the request is received: the handler runs up to await getServiceById
HandleCreateAppointment(variant, body) ==
    /\ req.pc = "idle"
    /\ started < MaxCalls
    /\ LET r == [NoRequest EXCEPT !.variant = variant, !.body = body,
                                  !.formattedTime = FormattedTime(body.time)]
       IN req' =
            IF ~TimeIsValid(variant, body.time)
            THEN [r EXCEPT !.pc = "responded",
                           !.res = Response(400, "Validation failed", 0, FALSE)]
            ELSE IF variant = "secured" /\ ~FullTimeRegex(r.formattedTime)
            THEN [r EXCEPT !.pc = "responded",
                           !.res = Response(400, "Invalid time format", 0, FALSE)]
            ELSE [r EXCEPT !.pc = "get-service"]
    /\ mail' = NoMail
    /\ UNCHANGED <<services, business_hours, blocked_dates, appointments, tz,
                   call, started, slotQuery, limiterVars,
                   datesQuery,
                   slotReq, timeText>>

\* bookingData of the handler
BookingData(r) ==
    [serviceId |-> r.body.service, appointmentDate |-> r.body.date,
     startTime |-> r.formattedTime]

\* the handler calls BookingModel.createAppointment(bookingData) and awaits it
AwaitCreateAppointment ==
    /\ req' = [req EXCEPT !.pc = "create-appointment"]
    /\ call' = [call EXCEPT !["r1"] = Entered(BookingData(req))]
    /\ started' = started + 1

\* getServiceById returns
GetServiceByIdReturns ==
    /\ req.pc = "get-service"
    /\ IF ~GetServiceById(req.body.service).found
       THEN /\ Respond(Response(400, "Invalid service selected", 0, FALSE))
            /\ UNCHANGED <<call, started>>
       ELSE IF req.variant = "secured"
       THEN /\ req' = [req EXCEPT !.pc = "check-recent"]
            /\ UNCHANGED <<call, started>>
       ELSE AwaitCreateAppointment
    /\ UNCHANGED <<services, business_hours, blocked_dates, appointments, tz,
                   slotQuery, mail, limiterVars,
                   datesQuery,
                   slotReq, timeText>>

\* checkRecentBooking returns (secured controller)
CheckRecentBookingReturns(recentBookingCheck) ==
    /\ req.pc = "check-recent"
    /\ IF recentBookingCheck
       THEN /\ Respond(Response(429, "Duplicate booking detected", 0, FALSE))
            /\ UNCHANGED <<call, started>>
       ELSE AwaitCreateAppointment
    /\ UNCHANGED <<services, business_hours, blocked_dates, appointments, tz,
                   slotQuery, mail, limiterVars,
                   datesQuery,
                   slotReq, timeText>>

\* getServiceById or checkRecentBooking throws: the catch block answers
ModelCallThrows ==
    /\ req.pc \in {"get-service", "check-recent"}
    /\ Respond(CatchResponse(req.variant, "Rate limit exceeded"))
    /\ UNCHANGED <<services, business_hours, blocked_dates, appointments, tz,
                   call, started, slotQuery, mail, limiterVars,
                   datesQuery,
                   slotReq, timeText>>

\* sendBookingConfirmation(emailData) is called and raced against the
\* timeout: it awaits its first sendMail, or createTransporter throws and
\* the race rejects at once
SendBookingConfirmation(rq, configured) ==
    IF configured
    THEN /\ mail' = [pc |-> "sending", retries |-> MailRetries,
                     attempts |-> 1, sent |-> 0, lastError |-> 0]
         /\ req' = [rq EXCEPT !.pc = "race"]
    ELSE /\ mail' = [NoMail EXCEPT !.pc = "rejected"]
         /\ req' = Answer(rq, Created(rq.appointmentId, FALSE))

\* Committed holding of a call that threw as well
CommittedAlways(result) == TRUE

\* await BookingModel.createAppointment(bookingData) returned an id: the
\* statements after it run; it threw: the catch block runs
Committed(result) == result.ok

\* BookingModel.createAppointment returns or throws.  prepared: whether
\* this.prepareSecureEmailData / this.prepareEmailData yields emailData (it
\* throws when the handler is not invoked as a method of the class)
DbCreateAppointmentReturns(prepared, configured) ==
    /\ req.pc = "create-appointment"
    /\ call["r1"].pc = "done"
    /\ LET result == call["r1"].result
           rq == [req EXCEPT !.appointmentId = result.insertId]
       IN IF ~Committed(result)
          THEN /\ Respond(CatchResponse(req.variant, result.message))
               /\ mail' = mail
          ELSE IF ~prepared
          THEN /\ req' = Answer(rq, Created(result.insertId, FALSE))
               /\ mail' = mail
          ELSE IF req.variant = "secured"
          THEN /\ req' = [rq EXCEPT !.pc = "email-rate-check"]
               /\ mail' = mail
          ELSE SendBookingConfirmation(rq, configured)
    /\ UNCHANGED <<services, business_hours, blocked_dates, appointments, tz,
                   call, started, slotQuery, limiterVars,
                   datesQuery,
                   slotReq, timeText>>

\* checkEmailRateLimit returns {allowed: true} (secured controller)
CheckEmailRateLimitReturns(configured) ==
    /\ req.pc = "email-rate-check"
    /\ SendBookingConfirmation(req, configured)
    /\ UNCHANGED <<services, business_hours, blocked_dates, appointments, tz,
                   call, started, slotQuery, limiterVars,
                   datesQuery,
                   slotReq, timeText>>

\* transporter.sendMail resolves: sendBookingConfirmation returns info, and
\* a race still pending resolves
SendMailResolves ==
    /\ mail.pc = "sending"
    /\ mail' = [mail EXCEPT !.pc = "resolved", !.sent = @ + 1]
    /\ IF req.pc = "race" THEN Respond(Created(req.appointmentId, TRUE))
       ELSE req' = req
    /\ UNCHANGED <<services, business_hours, blocked_dates, appointments, tz,
                   call, started, slotQuery, limiterVars,
                   datesQuery,
                   slotReq, timeText>>

\* SendMailRejects with the test retries >= 0 in place of retries > 0
SendMailRejectsRetriesOnceMore ==
    /\ mail.pc = "sending"
    /\ IF mail.retries >= 0
       THEN /\ mail' = [mail EXCEPT !.pc = "waiting", !.retries = @ - 1,
                                     !.lastError = mail.attempts]
            /\ req' = req
       ELSE /\ mail' = [mail EXCEPT !.pc = "rejected",
                                     !.lastError = mail.attempts]
            /\ IF req.pc = "race"
               THEN Respond(Created(req.appointmentId, FALSE))
               ELSE req' = req
    /\ UNCHANGED <<services, business_hours, blocked_dates, appointments, tz,
                   call, started, slotQuery, limiterVars,
                   datesQuery,
                   slotReq, timeText>>

\* transporter.sendMail rejects: a retry is scheduled, or lastError is thrown
\* and a race still pending rejects
SendMailRejects ==
    /\ mail.pc = "sending"
    /\ IF mail.retries > 0
       THEN /\ mail' = [mail EXCEPT !.pc = "waiting", !.retries = @ - 1,
                                     !.lastError = mail.attempts]
            /\ req' = req
       ELSE /\ mail' = [mail EXCEPT !.pc = "rejected",
                                     !.lastError = mail.attempts]
            /\ IF req.pc = "race"
               THEN Respond(Created(req.appointmentId, FALSE))
               ELSE req' = req
    /\ UNCHANGED <<services, business_hours, blocked_dates, appointments, tz,
                   call, started, slotQuery, limiterVars,
                   datesQuery,
                   slotReq, timeText>>

\* the one second before a retry has passed: sendMail is called again
RetryDelayElapses ==
    /\ mail.pc = "waiting"
    /\ mail' = [mail EXCEPT !.pc = "sending", !.attempts = @ + 1]
    /\ UNCHANGED <<services, business_hours, blocked_dates, appointments, tz,
                   call, started, slotQuery, req, limiterVars,
                   datesQuery,
                   slotReq, timeText>>

\* EmailTimeout without the rejection of timeoutPromise
EmailTimeoutIgnored ==
    /\ req.pc = "race"
    /\ UNCHANGED vars

\* the timer of timeoutPromise fires (after 15 s, 20 s in the fixed variant)
\* while the race is pending; it is never cleared, and firing after the race
\* has settled changes nothing
EmailTimeout ==
    /\ req.pc = "race"
    /\ Respond(Created(req.appointmentId, FALSE))
    /\ UNCHANGED <<services, business_hours, blocked_dates, appointments, tz,
                   call, started, slotQuery, mail, limiterVars,
                   datesQuery,
                   slotReq, timeText>>

\* ledgers before the request: as InitLedgers, or one confirmed appointment
ControllerLedgers ==
    InitLedgers \cup
        {<<Row(1, "cleaning", Monday2, Lit(9, 0), Lit(9, 30), "confirmed")>>}

ControllerInit ==
    /\ services = ServiceRows
    /\ business_hours = HoursWeek
    /\ blocked_dates \in {{}, {Sunday1}}
    /\ appointments \in ControllerLedgers
    /\ tz = 0
    /\ call = [p \in Procs |-> Idle]
    /\ started = 0
    /\ slotQuery = NoQuery
    /\ Quiet

\* one request is served; "r1" is its createAppointment call
ControllerNext ==
    \/ \E v \in Variants, b \in Bodies : HandleCreateAppointment(v, b)
    \/ GetServiceByIdReturns
    \/ \E recentBookingCheck \in CheckRecentBooking :
           CheckRecentBookingReturns(recentBookingCheck)
    \/ ModelCallThrows
    \/ ServiceLookup("r1")
    \/ AvailabilityCheck("r1")
    \/ BlockedCheck("r1")
    \/ AppointmentInsert("r1")
    \/ QueryThrows("r1")
    \/ \E prepared \in BOOLEAN, configured \in BOOLEAN :
           DbCreateAppointmentReturns(prepared, configured)
    \/ \E configured \in BOOLEAN : CheckEmailRateLimitReturns(configured)
    \/ SendMailResolves
    \/ SendMailRejects
    \/ RetryDelayElapses
    \/ EmailTimeout

SpecController == ControllerInit /\ [][ControllerNext]_vars

\* the event loop runs every continuation that is ready and every timer that
\* is due; nothing makes transporter.sendMail settle
SpecControllerFair ==
    /\ SpecController
    /\ WF_vars(\E prepared \in BOOLEAN, configured \in BOOLEAN :
                   DbCreateAppointmentReturns(prepared, configured))
    /\ WF_vars(\E configured \in BOOLEAN : CheckEmailRateLimitReturns(configured))
    /\ WF_vars(EmailTimeout)

\* as SpecControllerFair, and every transporter.sendMail settles: the
\* transporter is created with connectionTimeout, greetingTimeout and
\* socketTimeout; the timer of the retry delay fires
SpecMailFair ==
    /\ SpecControllerFair
    /\ WF_vars(SendMailResolves \/ SendMailRejects)
    /\ WF_vars(RetryDelayElapses)

(***************************************************************************)
(* The rate limiter of db.query.  Spec, SpecEngine and SpecController let   *)
(* any query throw (QueryThrows, SlotQueryThrows, ModelCallThrows);         *)
(* SpecLimiter keeps rateLimitStore and the clock, and serves               *)
(* GET /api/booking/available-slots, whose queries all use the identifier   *)
(* 'default'.                                                               *)
(***************************************************************************)
\* SECURITY_CONFIG.RATE_LIMIT
maxQueries == 100
windowMs == 60000

\* how often the clock advances by one window
MaxTicks == 1

\* checkRateLimit with the comparison > in place of >=: the limit is
\* reached one request late
checkRateLimitLate(st, identifier) ==
    LET windowStart == now - windowMs
        requests == st[identifier]
        validRequests == SelectSeq(requests, LAMBDA timestamp :
                                                 timestamp > windowStart)
    IN IF Len(validRequests) > maxQueries
       THEN [store |-> st, thrown |-> TRUE]
       ELSE [store |-> [st EXCEPT ![identifier] = Append(validRequests, now)],
             thrown |-> FALSE]

\* checkRateLimit(identifier) on the store st: the store it leaves, and
\* whether it throws 'Rate limit exceeded'
checkRateLimit(st, identifier) ==
    LET windowStart == now - windowMs
        requests == st[identifier]
        validRequests == SelectSeq(requests, LAMBDA timestamp :
                                                 timestamp > windowStart)
    IN IF Len(validRequests) >= maxQueries
       THEN [store |-> st, thrown |-> TRUE]
       ELSE [store |-> [st EXCEPT ![identifier] = Append(validRequests, now)],
             thrown |-> FALSE]

\* the queries the route handler issues before it answers: the blocked-date
\* check, the business hours, the service, the appointments
RouteQueries(date, serviceId) ==
    LET businessHours == business_hours[RouteDayOfWeek(date, tz)]
    IN IF BlockedQuery(date) # {} THEN 1
       ELSE IF ~businessHours.exists \/ ~businessHours.is_open THEN 2
       ELSE IF ServiceQuery(serviceId) = <<>> THEN 3
       ELSE 4

\* checkRateLimit of n successive db.query calls with the same identifier
RECURSIVE RateLimitChecks(_, _, _)
RateLimitChecks(st, identifier, n) ==
    IF n = 0 THEN [store |-> st, thrown |-> FALSE]
    ELSE LET c == checkRateLimit(st, identifier)
         IN IF c.thrown THEN c
            ELSE RateLimitChecks(c.store, identifier, n - 1)

\* a GET /api/booking/available-slots request is answered, each of its
\* queries passing through checkRateLimit; a throw is answered 500
LimitedRouteSlotQuery(date, serviceId) ==
    LET c == RateLimitChecks(rateLimitStore, "default",
                             RouteQueries(date, serviceId))
    IN /\ rateLimitStore' = c.store
       /\ lastQuery' = [identifier |-> "default",
                        outcome |-> IF c.thrown THEN "thrown" ELSE "executed"]
       /\ slotQuery' =
            [op |-> "route", date |-> date, serviceId |-> serviceId,
             res |-> IF c.thrown
                     THEN SlotOutcome("500", <<>>,
                              "Failed to fetch available time slots", "")
                     ELSE RouteAvailableSlots(date, serviceId)]
       /\ UNCHANGED <<services, business_hours, blocked_dates, appointments,
                      tz, call, started, now, controllerVars,
                   datesQuery>>

\* one window of time passes
ClockAdvances ==
    /\ now < MaxTicks * windowMs
    /\ now' = now + windowMs
    /\ UNCHANGED <<services, business_hours, blocked_dates, appointments, tz,
                   call, started, slotQuery, rateLimitStore, lastQuery,
                   controllerVars, datesQuery>>

\* db.query(sql, params, identifier) on the store st, for a statement and
\* parameters that validateQuery and validateParams accept: a throw of
\* checkRateLimit is rethrown before pool.execute is reached
query(st, identifier) ==
    LET c == checkRateLimit(st, identifier)
    IN [store |-> c.store,
        outcome |-> IF c.thrown THEN "thrown" ELSE "executed"]

\* how many timestamps every identifier but one may hold in the query
\* workload
OtherCalls == 1

\* the clock values of the query workload: a timestamp of 0 has left the
\* window at windowMs, a timestamp of 1 has not
ClockValues == {0, 1, windowMs}

\* one db.query call
DbQuery(identifier) ==
    LET q == query(rateLimitStore, identifier)
    IN /\ Cardinality({i \in Identifiers :
                           Len(q.store[i]) > OtherCalls}) <= 1
       /\ rateLimitStore' = q.store
       /\ lastQuery' = [identifier |-> identifier, outcome |-> q.outcome]
       /\ UNCHANGED <<services, business_hours, blocked_dates, appointments,
                      tz, call, started, slotQuery, now, controllerVars,
                      datesQuery>>

\* Date.now() moves on to t
ClockMoves(t) ==
    /\ t > now
    /\ now' = t
    /\ UNCHANGED <<services, business_hours, blocked_dates, appointments, tz,
                   call, started, slotQuery, rateLimitStore, lastQuery,
                   controllerVars, datesQuery>>

QueryInit ==
    /\ services = ServiceRows
    /\ business_hours = HoursWeek
    /\ blocked_dates = {}
    /\ appointments = <<>>
    /\ tz = 0
    /\ call = [p \in Procs |-> Idle]
    /\ started = 0
    /\ slotQuery = NoQuery
    /\ Quiet

QueryNext ==
    \/ \E identifier \in {"default", "appointments-check"} :
           DbQuery(identifier)
    \/ \E t \in ClockValues : ClockMoves(t)

SpecQuery == QueryInit /\ [][QueryNext]_vars

LimiterInit ==
    /\ services = ServiceRows
    /\ business_hours = HoursWeek
    /\ blocked_dates \in {{}, {Sunday1}}
    /\ appointments \in InitLedgers
    /\ tz = 0
    /\ call = [p \in Procs |-> Idle]
    /\ started = 0
    /\ slotQuery = NoQuery
    /\ Quiet

LimiterNext ==
    \/ \E d \in Dates, s \in ServiceIds : LimitedRouteSlotQuery(d, s)
    \/ ClockAdvances

SpecLimiter == LimiterInit /\ [][LimiterNext]_vars

Init ==
    /\ services = ServiceRows
    /\ business_hours = HoursWeek
    /\ blocked_dates \in {{}, {Sunday1}}
    /\ appointments \in InitLedgers
    /\ tz = 0
    /\ call = [p \in Procs |-> Idle]
    /\ started = 0
    /\ slotQuery = NoQuery
    /\ Quiet

Next ==
    \/ \E p \in Procs, b \in BookingInputs : CreateAppointment(p, b)
    \/ \E p \in Procs : ServiceLookup(p)
    \/ \E p \in Procs : AvailabilityCheck(p)
    \/ \E p \in Procs : BlockedCheck(p)
    \/ \E p \in Procs : AppointmentInsert(p)
    \/ \E p \in Procs : QueryThrows(p)

Spec == Init /\ [][Next]_vars

(***************************************************************************)
(* The slot queries over the ledgers one request at a time can build, for  *)
(* every business-hours table, blocked-date set and host timezone of the   *)
(* model.                                                                  *)
(***************************************************************************)
EngineInit ==
    /\ services = ServiceRows
    /\ business_hours \in {HoursWeek, HoursSunday}
    /\ blocked_dates \in {{}, {Sunday1}}
    /\ appointments \in InitLedgers
    /\ tz \in TzOffsets
    /\ call = [p \in Procs |-> Idle]
    /\ started = 0
    /\ slotQuery = NoQuery
    /\ Quiet

\* the ledger is built by requests served one at a time, then queried
Building == slotQuery.op = "none" /\ datesQuery.op = "none"

EngineNext ==
    \/ Building /\ \E b \in BookingInputs : CreateAppointment("r1", b)
    \/ Building /\ ServiceLookup("r1")
    \/ Building /\ AvailabilityCheck("r1")
    \/ Building /\ BlockedCheck("r1")
    \/ Building /\ AppointmentInsert("r1")
    \/ Building /\ \E d \in Dates, s \in ServiceIds : DbSlotQuery(d, s)
    \/ Building /\ \E d \in Dates, s \in ServiceIds : RouteSlotQuery(d, s)
    \/ Building /\ \E op \in {"db", "route"} : SlotQueryThrows(op)

SpecEngine == EngineInit /\ [][EngineNext]_vars

(***************************************************************************)
(* The slot queries over other business hours: a working week of           *)
(* 09:00-17:00, and a record whose opening time is not before its closing  *)
(* time.                                                                   *)
(***************************************************************************)
\* Monday to Saturday 09:00-17:00, closed on Sunday
HoursNineToFive ==
    [d \in {dayNames[i] : i \in 1..7} |->
        IF d = "Sunday" THEN HoursRow(FALSE, Lit(0, 0), Lit(0, 0))
        ELSE HoursRow(TRUE, Lit(9, 0), Lit(17, 0))]

\* as HoursWeek, with Monday open from 11:00 to 09:00
HoursInverted ==
    [HoursWeek EXCEPT !["Monday"] = HoursRow(TRUE, Lit(11, 0), Lit(9, 0))]

\* as HoursWeek, without a record for Sunday
HoursNoSunday == [HoursWeek EXCEPT !["Sunday"] = NoRow]

\* as HoursWeek, with Monday open and its open_time and close_time NULL
HoursNoTimes == [HoursWeek EXCEPT !["Monday"] = HoursRow(TRUE, <<>>, <<>>)]

\* as HoursWeek, with Monday open 09:00-10:00
HoursShort ==
    [HoursWeek EXCEPT !["Monday"] = HoursRow(TRUE, Lit(9, 0), Lit(10, 0))]

\* the months and the days on which available-dates is requested
Years == {2025}
Months == {6, 7, 13}
Todays == {<<2025, 5, 20>>, <<2025, 6, 2>>, <<2025, 6, 17>>}

GridInit ==
    /\ services = ServiceRows
    /\ business_hours \in {HoursWeek, HoursSunday, HoursNineToFive,
                          HoursInverted, HoursNoSunday, HoursNoTimes,
                          HoursShort}
    /\ blocked_dates \in {{}, {Sunday1}, {Monday2}}
    /\ appointments \in ControllerLedgers
    /\ tz \in TzOffsets
    /\ call = [p \in Procs |-> Idle]
    /\ started = 0
    /\ slotQuery = NoQuery
    /\ Quiet

\* one slot query is answered
GridNext ==
    \/ Building /\ \E d \in Dates, s \in ServiceIds : DbSlotQuery(d, s)
    \/ Building /\ \E d \in Dates, s \in ServiceIds : RouteSlotQuery(d, s)
    \/ Building /\ \E y \in Years, m \in Months, s \in ServiceIds,
                       t \in Todays : AvailableDatesQuery(y, m, s, t)
    \/ Building /\ AvailableDatesThrows

SpecGrid == GridInit /\ [][GridNext]_vars

(***************************************************************************)
(* The ledger under requests served one at a time, with the writes made    *)
(* outside this code: an appointment is cancelled, the duration of a       *)
(* service is changed in the catalog.                                      *)
(***************************************************************************)
\* createAppointment(bookingData) run from its first to its last statement
\* with no other write in between and no query throwing: what it returns or
\* throws
CreateAppointmentOutcome(bookingData) ==
    LET e == ValidationError(bookingData)
        rows == ServiceQuery(bookingData.serviceId)
        endTime == EndTimeOf(bookingData.startTime, rows[1].duration_minutes)
    IN IF e # "" THEN Err(e)
       ELSE IF rows = <<>> THEN Err("Invalid or inactive service")
       ELSE IF AvailabilityQuery(bookingData.appointmentDate,
                                 bookingData.startTime, endTime) # {}
           THEN Err("Selected time slot is already booked")
       ELSE IF BlockedQuery(bookingData.appointmentDate) # {}
           THEN Err("Selected date is not available for booking")
       ELSE Ok(Len(appointments) + 1)

\* durations an administrator gives a service
Durations == {30, 45, 60}

\* UPDATE appointments SET status = 'cancelled' WHERE id = ?
CancelAppointment(id) ==
    /\ id \in 1..Len(appointments)
    /\ appointments[id].status # "cancelled"
    /\ appointments' = [appointments EXCEPT ![id].status = "cancelled"]
    /\ UNCHANGED <<services, business_hours, blocked_dates, tz, call, started,
                   slotQuery, controllerVars, limiterVars, datesQuery>>

\* UPDATE services SET duration_minutes = ? WHERE service_id = ?, once
ChangeDuration(serviceId, duration) ==
    /\ services = ServiceRows
    /\ serviceId \in DOMAIN services
    /\ duration # services[serviceId].duration_minutes
    /\ services' = [services EXCEPT ![serviceId].duration_minutes = duration]
    /\ UNCHANGED <<business_hours, blocked_dates, appointments, tz, call,
                   started, slotQuery, controllerVars, limiterVars, datesQuery>>

\* the requests: the Monday of the model, every service of the catalog
LedgerInputs ==
    [serviceId : DOMAIN ServiceRows, appointmentDate : {Monday2},
     startTime : StartTimes]

LedgerInit ==
    /\ services = ServiceRows
    /\ business_hours = HoursWeek
    /\ blocked_dates \in {{}, {Monday2}}
    /\ appointments \in ControllerLedgers
    /\ tz = 0
    /\ call = [p \in Procs |-> Idle]
    /\ started = 0
    /\ slotQuery = NoQuery
    /\ Quiet

\* each call of createAppointment completes before the next starts
LedgerNext ==
    \/ \E b \in LedgerInputs : CreateAppointment("r1", b)
    \/ ServiceLookup("r1")
    \/ AvailabilityCheck("r1")
    \/ BlockedCheck("r1")
    \/ AppointmentInsert("r1")
    \/ QueryThrows("r1")
    \/ \E id \in 1..(MaxCalls + 1) : CancelAppointment(id)
    \/ \E s \in {"cleaning", "crown"}, d \in Durations : ChangeDuration(s, d)

SpecLedger == LedgerInit /\ [][LedgerNext]_vars

(***************************************************************************)
(* Properties.                                                             *)
(***************************************************************************)
\* [a, b) and [c, d) overlap, on numbers
HalfOpenOverlap(a, b, c, d) == a < d /\ b > c

\* two rows of the ledger overlap: same date, overlapping [start, end)
RowsOverlap(r, q) ==
    /\ r.appointment_date = q.appointment_date
    /\ HalfOpenOverlap(SqlTime(r.start_time), SqlTime(r.end_time),
                       SqlTime(q.start_time), SqlTime(q.end_time))

\* the non-cancelled rows of the ledger that overlap [from, to) on date
OverlappingRows(date, from, to) ==
    {i \in 1..Len(appointments) :
        /\ appointments[i].status # "cancelled"
        /\ appointments[i].appointment_date = date
        /\ HalfOpenOverlap(from, to, SqlTime(appointments[i].start_time),
                           SqlTime(appointments[i].end_time))}

InSeq(x, seq) == \E i \in 1..Len(seq) : seq[i] = x

Active(serviceId) ==
    serviceId \in DOMAIN services /\ services[serviceId].is_active

\* C1: in every state of the ledger, under any interleaving of the query
\* steps of concurrent db.createAppointment calls, no two non-cancelled
\* appointments of the same date have overlapping [start_time, end_time).
C1_NoOverlappingAppointments ==
    \A i, j \in 1..Len(appointments) :
        (/\ i < j
         /\ appointments[i].status # "cancelled"
         /\ appointments[j].status # "cancelled")
        => ~RowsOverlap(appointments[i], appointments[j])

\* C2: of two booking requests for the same date and overlapping intervals
\* that run concurrently, exactly one succeeds and the other fails with the
\* slot-already-booked conflict; both never succeed.
C2_OneOfTwoRacingRequestsFails ==
    \A p, q \in Procs :
        (/\ p # q
         /\ call[p].pc = "done" /\ call[q].pc = "done"
         /\ call[p].endTime # <<>> /\ call[q].endTime # <<>>
         /\ call[p].bookingData.appointmentDate
                = call[q].bookingData.appointmentDate
         /\ HalfOpenOverlap(SqlTime(call[p].bookingData.startTime),
                            SqlTime(call[p].endTime),
                            SqlTime(call[q].bookingData.startTime),
                            SqlTime(call[q].endTime)))
        => ~(call[p].result.ok /\ call[q].result.ok)

\* the slot query recorded in slotQuery returned a slot list
ReturnedSlots ==
    /\ slotQuery.op \in {"db", "route"}
    /\ slotQuery.res.outcome \in {"return", "200"}
    /\ slotQuery.res.dayOfWeek # ""
    /\ business_hours[slotQuery.res.dayOfWeek].exists
    /\ business_hours[slotQuery.res.dayOfWeek].is_open

C4_GridCandidateOfferedIffFree ==
    (ReturnedSlots /\ slotQuery.res.dayOfWeek = CalendarWeekday(slotQuery.date))
    =>
        LET hours == business_hours[slotQuery.res.dayOfWeek]
            open == SqlTime(hours.open_time) \div 60
            close == SqlTime(hours.close_time) \div 60
            d == services[slotQuery.serviceId].duration_minutes
        IN \A k \in 0..((close - open) \div 30) :
              LET start == open + 30 * k
              IN start + d <= close =>
                   (InSeq(SlotText(start), slotQuery.res.availableSlots)
                    <=> OverlappingRows(slotQuery.date, start * 60,
                                        (start + d) * 60) = {})

\* C5: the weekday a slot query uses to look up the business hours of a date
\* is the calendar weekday of the date, whatever the host timezone.
C5_WeekdayIsCalendarWeekday ==
    (slotQuery.op \in {"db", "route"} /\ slotQuery.res.dayOfWeek # "")
        => slotQuery.res.dayOfWeek = CalendarWeekday(slotQuery.date)

\* C6: whenever db.createAppointment succeeds for (date, time, service), the
\* time is, in the state before the insert, a member of the slot list a slot
\* query returns for (date, service).
C6_BookedTimeWasOffered ==
    [][\A p \in Procs :
          (call[p].pc = "appointment-insert" /\ call'[p].result.ok)
          => LET b == call[p].bookingData
             IN \/ InSeq(b.startTime,
                         DbGetAvailableTimeSlots(b.appointmentDate,
                                                 b.serviceId).availableSlots)
                \/ InSeq(b.startTime,
                         RouteAvailableSlots(b.appointmentDate,
                                             b.serviceId).availableSlots)]_vars

\* C7: the conflict check of db.createAppointment reports a conflict exactly
\* when the requested [s, e) and a non-cancelled appointment [a, b) of the
\* date satisfy s < b and e > a.
C7_ConflictIffHalfOpenOverlap ==
    [][\A p \in Procs :
          (/\ call[p].pc = "availability-check"
           /\ call'[p].pc # "availability-check"
           /\ call'[p].result.message # "Rate limit exceeded")
          => LET b == call[p].bookingData
             IN (call'[p].result.message
                     = "Selected time slot is already booked")
                <=> OverlappingRows(b.appointmentDate, SqlTime(b.startTime),
                                    SqlTime(call[p].endTime)) # {}]_vars

\* C8: a db.createAppointment call that fails leaves the ledger as it was,
\* and a call that succeeds adds exactly one row, with status 'confirmed',
\* the requested start and end = start + duration; nothing else changes the
\* ledger.
C8_NoPartialApply ==
    [][/\ \A p \in Procs :
             (call[p].pc # "done" /\ call'[p].pc = "done")
             => IF call'[p].result.ok
                THEN LET b == call[p].bookingData
                         r == appointments'[Len(appointments')]
                     IN /\ appointments' = Append(appointments, r)
                        /\ r.id = call'[p].result.insertId
                        /\ r.status = "confirmed"
                        /\ r.appointment_date = b.appointmentDate
                        /\ r.service_id = b.serviceId
                        /\ r.start_time = b.startTime
                        /\ SqlTime(r.end_time) = SqlTime(b.startTime)
                             + 60 * services[b.serviceId].duration_minutes
                ELSE appointments' = appointments
       /\ appointments' # appointments
             => \E p \in Procs : call[p].pc # "done" /\ call'[p].pc = "done"
                                    /\ call'[p].result.ok]_vars

\* one request has failed, another has succeeded and its row is in the ledger
C8_Witness ==
    \E p, q \in Procs :
        /\ call[p].pc = "done" /\ ~call[p].result.ok
        /\ call[p].result.message = "Selected time slot is already booked"
        /\ call[q].pc = "done" /\ call[q].result.ok
        /\ appointments[call[q].result.insertId].start_time
               = call[q].bookingData.startTime

\* C9: a request for a date of the blocked-dates set never inserts an
\* appointment; when its blocked-date check runs (no earlier check failed)
\* and the query returns, the call fails with 'Selected date is not
\* available for booking'.
C9_BlockedDateNeverBooked ==
    [][/\ \A p \in Procs :
             call'[p].bookingData.appointmentDate \in blocked_dates
             => /\ call'[p].pc # "appointment-insert"
                /\ ~call'[p].result.ok
                /\ (call[p].pc = "blocked-check" /\ call'[p] # call[p])
                   => /\ call'[p].pc = "done"
                      /\ call'[p].result.message \in
                            {"Selected date is not available for booking",
                             "Rate limit exceeded"}
       /\ appointments' # appointments
             => appointments'[Len(appointments')].appointment_date
                    \notin blocked_dates]_vars

\* a request for a blocked date has been refused by the blocked-date check
C9_Witness ==
    \E p \in Procs :
        /\ call[p].pc = "done"
        /\ call[p].bookingData.appointmentDate \in blocked_dates
        /\ call[p].result.message = "Selected date is not available for booking"

\* C10: a db.createAppointment call whose serviceId resolves to no active
\* service fails with 'Invalid or inactive service' at the service lookup,
\* before any overlap check, and no appointment of that service is inserted.
C10_InactiveServiceInvisible ==
    [][/\ \A p \in Procs :
             (call'[p].pc # "idle" /\ ~Active(call'[p].bookingData.serviceId))
             => /\ call'[p].pc \in {"service-lookup", "done"}
                /\ ~call'[p].result.ok
                /\ (call[p].pc = "service-lookup" /\ call'[p] # call[p])
                   => call'[p].result.message \in
                            {"Invalid or inactive service",
                             "Rate limit exceeded"}
       /\ appointments' # appointments
             => Active(appointments'[Len(appointments')].service_id)]_vars

\* a request for an inactive or unknown service was refused at the lookup
C10_Witness ==
    \E p \in Procs :
        /\ call[p].pc = "done"
        /\ ~Active(call[p].bookingData.serviceId)
        /\ call[p].result.message = "Invalid or inactive service"

(***************************************************************************)
(* The controller: claims C11 to C15.                                      *)
(***************************************************************************)
\* minutes since midnight of a text 'HH:MM' or 'HH:MM:SS', read digit by digit
MinutesOfText(t) ==
    ((t[1] - 48) * 10 + (t[2] - 48)) * 60 + (t[4] - 48) * 10 + (t[5] - 48)

\* the appointment the request of the controller has committed
CommittedRow == appointments[call["r1"].result.insertId]

\* C11: a booking request whose time is 'HH:MM' is stored with start_time
\* 'HH:MM:00' (a time 'HH:MM:SS' is stored as it is), and the stored
\* end_time is start + duration of the service in minutes, rendered
\* zero-padded as 'HH:MM:00'.
C11_StoredTimesNormalized ==
    (req.pc # "idle" /\ call["r1"].result.ok) =>
        LET time == req.body.time
            endMinutes == MinutesOfText(time)
                            + services[CommittedRow.service_id].duration_minutes
        IN /\ CommittedRow.start_time =
                  (IF Len(time) = 5 THEN time \o <<58, 48, 48>> ELSE time)
           /\ CommittedRow.end_time = Lit(endMinutes \div 60, endMinutes % 60)

\* time '14:00' with the 45-minute service is stored as 14:00:00 to 14:45:00
C11_Witness ==
    /\ req.pc # "idle" /\ call["r1"].result.ok
    /\ req.body.time = LitShort(14, 0)
    /\ CommittedRow.service_id = "crown"
    /\ CommittedRow.start_time = Lit(14, 0)
    /\ CommittedRow.end_time = Lit(14, 45)

\* C12: once db.createAppointment has returned an id, the appointment of that
\* id stays in the ledger, confirmed, whatever the notification does, and the
\* response of the controller, once sent, is 201 with that id.
C12_NotificationNeverUndoesBooking ==
    (req.pc # "idle" /\ call["r1"].result.ok) =>
        /\ Len(appointments) >= call["r1"].result.insertId
        /\ CommittedRow.id = call["r1"].result.insertId
        /\ CommittedRow.status = "confirmed"
        /\ req.pc = "responded" =>
              /\ req.res.status = 201
              /\ req.res.appointmentId = call["r1"].result.insertId

\* every sendMail attempt failed and the request was answered 201
C12_Witness ==
    /\ call["r1"].result.ok
    /\ mail.pc = "rejected" /\ mail.attempts = MailRetries + 1
    /\ req.pc = "responded" /\ req.res.status = 201
    /\ ~req.res.emailConfirmationSent

\* C13: emailConfirmationSent of a 201 response is true iff a sendMail
\* attempt of the request's sendBookingConfirmation succeeded.
C13_FlagIffEmailSent ==
    (req.pc = "responded" /\ req.res.status = 201) =>
        (req.res.emailConfirmationSent <=> mail.sent > 0)

\* C14: sendBookingConfirmation is invoked only in a step in which the
\* request's db.createAppointment call has returned the id of a row of the
\* ledger; never for a call that threw.
C14_NotificationOnlyAfterCommit ==
    [][(mail.pc = "none" /\ mail'.pc # "none") =>
          /\ call["r1"].pc = "done" /\ call["r1"].result.ok
          /\ req'.appointmentId = call["r1"].result.insertId
          /\ Len(appointments) >= call["r1"].result.insertId
          /\ CommittedRow.appointment_date = req.body.date
          /\ CommittedRow.start_time = req.formattedTime]_vars

\* sendBookingConfirmation is awaiting a sendMail for a committed booking
C14_Witness ==
    /\ mail.pc = "sending"
    /\ req.pc = "race"
    /\ req.appointmentId = Len(appointments)

\* C15: a request whose booking is committed is eventually answered 201, even
\* if sendMail never settles; when the timeout settles the race the answer
\* carries emailConfirmationSent = false.
C15_CommittedBookingAnswered ==
    /\ (req.pc # "idle" /\ call["r1"].result.ok)
          ~> (req.pc = "responded" /\ req.res.status = 201)
    /\ [][(req.pc = "race" /\ req'.pc = "responded" /\ mail' = mail) =>
             req'.res = Created(call["r1"].result.insertId, FALSE)]_vars

\* answered 201 after the timeout while the first sendMail is still pending
C15_Witness ==
    /\ req.pc = "responded" /\ req.res.status = 201
    /\ ~req.res.emailConfirmationSent
    /\ mail.pc = "sending" /\ mail.attempts = 1

(***************************************************************************)
(* The slot queries: claims C16 to C20.                                    *)
(***************************************************************************)
\* C16: a slot query repeated for the same (date, serviceId), with no write
\* to the ledger, the blocked dates, the business hours or the services in
\* between, has the same result as the query before it.
C16_RepeatedQuerySameResult ==
    [][(/\ slotQuery.op # "none"
        /\ slotQuery'.op = slotQuery.op
        /\ slotQuery'.date = slotQuery.date
        /\ slotQuery'.serviceId = slotQuery.serviceId
        /\ UNCHANGED <<services, business_hours, blocked_dates, appointments>>)
       => slotQuery'.res = slotQuery.res]_vars

\* C17: a slot query whose serviceId resolves to no active service yields
\* the not-found outcome ('Service not found or inactive': thrown by
\* db.getAvailableTimeSlots, status 404 of the route), on every date,
\* blocked and closed ones included; never a slot list.
C17_UnknownServiceNotFound ==
    (slotQuery.op # "none" /\ ~Active(slotQuery.serviceId)) =>
        /\ slotQuery.res.outcome \in {"throw", "404"}
        /\ slotQuery.res.message = "Service not found or inactive"

\* C18: a slot query for a blocked date returns an empty slot list with an
\* annotation that is neither absent nor the one of a closed day, from
\* db.getAvailableTimeSlots and from the route handler alike.
C18_BlockedDateAnnotated ==
    (slotQuery.op # "none" /\ slotQuery.date \in blocked_dates) =>
        /\ slotQuery.res.outcome \in {"return", "200"}
        /\ slotQuery.res.availableSlots = <<>>
        /\ slotQuery.res.message
              \notin {"", "The office is closed on this day"}

\* C19: when the business-hours record of the requested weekday is open
\* with times that violate 0 <= open < close <= 1440, a slot query that
\* reads it (date not blocked, weekday resolved, service active) fails; it
\* returns no slot list, not even an empty one.
C19_InvalidHoursFailLoudly ==
    LET hours == business_hours[CalendarWeekday(slotQuery.date)]
    IN (/\ slotQuery.op # "none"
        /\ slotQuery.date \notin blocked_dates
        /\ slotQuery.res.dayOfWeek = CalendarWeekday(slotQuery.date)
        /\ Active(slotQuery.serviceId)
        /\ hours.exists /\ hours.is_open
        /\ hours.open_time # <<>> /\ hours.close_time # <<>>
        /\ ~(MinutesOfText(hours.open_time) < MinutesOfText(hours.close_time)))
       => slotQuery.res.outcome \notin {"return", "200"}

\* the start times open + 30k with open + 30k + d <= close, as 'HH:MM:00'
GridTimes(open, close, d) ==
    {Lit(m \div 60, m % 60) :
        m \in {open + 30 * k : k \in {j \in 0..48 : open + 30 * j + d <= close}}}

\* C20: on a date that is not blocked, whose weekday is open with valid
\* hours [open, close), with no appointment that is not cancelled, a slot
\* query for an active service of duration d returns exactly the start
\* times open + 30k (k >= 0) with open + 30k + d <= close, each once.
C20_EmptyDayFullGrid ==
    LET hours == business_hours[CalendarWeekday(slotQuery.date)]
        open == MinutesOfText(hours.open_time)
        close == MinutesOfText(hours.close_time)
        slots == slotQuery.res.availableSlots
    IN (/\ slotQuery.op # "none"
        /\ slotQuery.date \notin blocked_dates
        /\ Active(slotQuery.serviceId)
        /\ hours.exists /\ hours.is_open
        /\ hours.open_time # <<>> /\ hours.close_time # <<>>
        /\ open < close
        /\ AppointmentsQuery(slotQuery.date) = <<>>)
       => /\ slotQuery.res.outcome \in {"return", "200"}
          /\ {slots[i] : i \in 1..Len(slots)}
                = GridTimes(open, close,
                            services[slotQuery.serviceId].duration_minutes)
          /\ \A i, j \in 1..Len(slots) : slots[i] = slots[j] => i = j

(***************************************************************************)
(* The slot queries and available-dates: claims C21 to C23.                *)
(***************************************************************************)
\* whether the list a slot query returned is strictly ascending in time
Ascending(slots) ==
    \A i, j \in 1..Len(slots) :
        i < j => MinutesOfText(slots[i]) < MinutesOfText(slots[j])

\* whether every entry of the list is on the grid open, open + 30, ... of
\* the business-hours record
OnGrid(slots, hours) ==
    slots # <<>> =>
        /\ hours.exists /\ hours.open_time # <<>>
        /\ \A i \in 1..Len(slots) :
              \E k \in 0..47 :
                  slots[i] = SlotText(MinutesOfText(hours.open_time) + 30 * k)

\* C21: the sequence a slot query returns is strictly ascending in time,
\* has no duplicates, and is a subsequence of the 30-minute grid open,
\* open + 30, open + 60, ... of the weekday of the requested date.
C21_SlotsAscendingOnWeekdayGrid ==
    (slotQuery.op # "none" /\ slotQuery.res.outcome \in {"return", "200"})
       => /\ Ascending(slotQuery.res.availableSlots)
          /\ OnGrid(slotQuery.res.availableSlots,
                    business_hours[CalendarWeekday(slotQuery.date)])

\* the same against the record of the weekday the query looked up
SlotsAscendingOnLookedUpGrid ==
    (slotQuery.op # "none" /\ slotQuery.res.outcome \in {"return", "200"}
        /\ slotQuery.res.availableSlots # <<>>)
       => /\ Ascending(slotQuery.res.availableSlots)
          /\ OnGrid(slotQuery.res.availableSlots,
                    business_hours[slotQuery.res.dayOfWeek])

\* the days of a month of 2025
CalendarDays(month) ==
    IF month \in {4, 6, 9, 11} THEN 30 ELSE IF month = 2 THEN 28 ELSE 31

\* whether the calendar date a is before the calendar date b
DateBefore(a, b) ==
    \/ a[1] < b[1]
    \/ a[1] = b[1] /\ a[2] < b[2]
    \/ a[1] = b[1] /\ a[2] = b[2] /\ a[3] < b[3]

\* whether GET /api/booking/available-slots returns at least one slot
RouteOffersSlot(date, serviceId) ==
    LET r == RouteAvailableSlots(date, serviceId)
    IN r.outcome = "200" /\ r.availableSlots # <<>>

NoHours(weekday) ==
    LET hours == business_hours[weekday]
    IN \/ ~hours.exists
       \/ hours.is_open /\ (hours.open_time = <<>> \/ hours.close_time = <<>>)

\* the weekday of the d-th day of June or July 2025 (1 June is a Sunday,
\* 1 July a Tuesday)
WeekdayOfDay(month, d) ==
    dayNames[((d - 1 + (IF month = 6 THEN 0 ELSE 2)) % 7) + 1]

\* C23: when a weekday has no business-hours record, or a record without
\* open or close time, every date on that weekday is closed: the slot query
\* returns an empty list for it, and available-dates answers with the other
\* available days of the month, without those days and without failing.
C23_MissingHoursMeanClosed ==
    /\ (/\ slotQuery.op # "none" /\ slotQuery.date \in Dates
        /\ Active(slotQuery.serviceId)
        /\ NoHours(CalendarWeekday(slotQuery.date)))
       => /\ slotQuery.res.outcome \in {"return", "200"}
          /\ slotQuery.res.availableSlots = <<>>
    /\ (/\ datesQuery.op = "dates" /\ datesQuery.month \in {6, 7}
        /\ Active(datesQuery.serviceId)
        /\ \E w \in DOMAIN business_hours : NoHours(w))
       => /\ datesQuery.res.status = 200
          /\ \A i \in 1..Len(datesQuery.res.availableDates) :
                ~NoHours(WeekdayOfDay(datesQuery.month,
                                      datesQuery.res.availableDates[i]))

(***************************************************************************)
(* Status codes of rejected bookings: claims C24 and C25.                  *)
(***************************************************************************)
\* C24: a booking request rejected because the slot is already booked and a
\* booking request rejected because the date is blocked are both answered
\* with status 409.
C24_ConflictsAnswered409 ==
    (/\ req.pc = "responded"
     /\ call["r1"].pc = "done"
     /\ call["r1"].result.message
            \in {"Selected time slot is already booked",
                 "Selected date is not available for booking"})
       => req.res.status = 409

\* C25: a booking request that passes validation and names a service that
\* is unknown or inactive is answered with status 404.
C25_UnknownServiceAnswered404 ==
    (/\ req.pc = "responded"
     /\ TimeIsValid(req.variant, req.body.time)
     /\ ~Active(req.body.service))
       => req.res.status = 404

(***************************************************************************)
(* The ledger served one request at a time: claims C26 to C30.             *)
(***************************************************************************)

\* the non-cancelled rows that overlap the interval of the call, half-open
CallOverlaps(c) ==
    c.endTime # <<>>
    /\ OverlappingRows(c.bookingData.appointmentDate,
                       SqlTime(c.bookingData.startTime), SqlTime(c.endTime)) # {}

\* C26: db.createAppointment checks service, overlap, blocked date in this
\* order and reports the first check that fails: a request with an inactive
\* service fails with 'Invalid or inactive service' whatever the ledger and
\* the blocked dates are, a request with an overlapping appointment on a
\* blocked date fails with 'Selected time slot is already booked', the
\* blocked date is reported only when nothing overlaps, and the insert
\* happens only when no check fails (a query that throws fails the call with
\* its own error).
C26_FirstFailingCheckReported ==
    [][(call'["r1"] # call["r1"] /\ call'["r1"].pc = "done")
       => LET c == call'["r1"]
              b == c.bookingData
              msg == c.result.message
              valid == TimeRegex(b.startTime)
              blocked == b.appointmentDate \in blocked_dates
          IN /\ (valid /\ ~Active(b.serviceId))
                => msg \in {"Invalid or inactive service", "Rate limit exceeded"}
             /\ (valid /\ Active(b.serviceId) /\ CallOverlaps(c) /\ blocked)
                => msg \in {"Selected time slot is already booked",
                            "Rate limit exceeded"}
             /\ msg = "Selected date is not available for booking"
                => Active(b.serviceId) /\ ~CallOverlaps(c)
             /\ c.result.ok
                => valid /\ Active(b.serviceId) /\ ~CallOverlaps(c) /\ ~blocked]_vars

\* a request that overlaps a live appointment on a blocked date was refused
\* as already booked
C26_Witness ==
    /\ call["r1"].pc = "done"
    /\ call["r1"].result.message = "Selected time slot is already booked"
    /\ call["r1"].bookingData.appointmentDate \in blocked_dates
    /\ CallOverlaps(call["r1"])

\* the cancelled rows of the ledger that overlap [from, to) on date
CancelledOverlappingRows(date, from, to) ==
    {i \in 1..Len(appointments) :
        /\ appointments[i].status = "cancelled"
        /\ appointments[i].appointment_date = date
        /\ HalfOpenOverlap(from, to, SqlTime(appointments[i].start_time),
                           SqlTime(appointments[i].end_time))}

\* the grid candidates of a date for a service: the start times open + 30k
\* with open + 30k + duration <= close, when the date is not blocked, its
\* weekday is open and the service is active
Candidates(date, serviceId) ==
    LET hours == business_hours[CalendarWeekday(date)]
    IN IF /\ date \notin blocked_dates
          /\ Active(serviceId)
          /\ hours.exists /\ hours.is_open /\ hours.open_time # <<>>
       THEN GridTimes(MinutesOfText(hours.open_time),
                      MinutesOfText(hours.close_time),
                      services[serviceId].duration_minutes)
       ELSE {}

\* whether a candidate overlaps cancelled appointments and no other
OverlapsOnlyCancelled(date, start, serviceId) ==
    LET from == SqlTime(start)
        to == from + 60 * services[serviceId].duration_minutes
    IN /\ CancelledOverlappingRows(date, from, to) # {}
       /\ OverlappingRows(date, from, to) = {}

\* C27: cancelled appointments never block: an interval that overlaps only
\* appointments with status 'cancelled' is offered by the slot query and is
\* accepted by db.createAppointment.
C27_CancelledNeverBlock ==
    \A date \in Dates, serviceId \in ServiceIds :
        \A start \in Candidates(date, serviceId) :
            OverlapsOnlyCancelled(date, start, serviceId)
            => /\ InSeq(start, DbGetAvailableTimeSlots(date, serviceId).availableSlots)
               /\ InSeq(start, RouteAvailableSlots(date, serviceId).availableSlots)
               /\ CreateAppointmentOutcome(
                      [serviceId |-> serviceId, appointmentDate |-> date,
                       startTime |-> start]).ok

\* the live rows of a date whose stored interval [start_time, end_time]
\* overlaps or touches [from, to], in seconds
StoredNear(date, from, to) ==
    {i \in 1..Len(appointments) :
        /\ appointments[i].status # "cancelled"
        /\ appointments[i].appointment_date = date
        /\ SqlTime(appointments[i].start_time) <= to
        /\ SqlTime(appointments[i].end_time) >= from}

\* the slot queries and the conflict check decide on the stored end_time of
\* the rows: an interval they refuse has a live row whose stored interval
\* overlaps it or lies within half an hour of its end, an interval they
\* accept overlaps no stored interval
DecidedOnStoredEnd ==
    \A date \in Dates, serviceId \in ServiceIds :
        Active(serviceId) =>
        LET dbSlots == DbGetAvailableTimeSlots(date, serviceId).availableSlots
            routeSlots == RouteAvailableSlots(date, serviceId).availableSlots
        IN \A start \in Candidates(date, serviceId) \cup {Lit(9, 45)} :
            LET from == SqlTime(start)
                to == from + 60 * services[serviceId].duration_minutes
                res == CreateAppointmentOutcome(
                           [serviceId |-> serviceId, appointmentDate |-> date,
                            startTime |-> start])
            IN /\ start \in Candidates(date, serviceId)
                  => /\ InSeq(start, routeSlots)
                        <=> OverlappingRows(date, from, to) = {}
                     /\ InSeq(start, dbSlots)
                        => OverlappingRows(date, from, to) = {}
                     /\ ~InSeq(start, dbSlots)
                        => StoredNear(date, from, to + 1800) # {}
               /\ res.ok => OverlappingRows(date, from, to) = {}
               /\ res.message = "Selected time slot is already booked"
                  => StoredNear(date, from, to) # {}
               /\ OverlappingRows(date, from, to) # {} => ~res.ok

\* C28: the end time of an appointment is fixed at creation: a change of the
\* duration of a service in the catalog leaves the stored end_time of every
\* appointment as it is, and the slot queries and the conflict check of
\* db.createAppointment keep deciding on the stored end_time, not on start +
\* the duration the service has now.
C28_EndTimeFixedAtCreation ==
    /\ []DecidedOnStoredEnd
    /\ [][services' # services => appointments' = appointments]_vars

\* the duration of a service was changed while the ledger holds a live
\* appointment of that service, whose stored end is no longer start + duration
C28_Witness ==
    /\ services # ServiceRows
    /\ \E i \in 1..Len(appointments) :
          /\ appointments[i].status = "confirmed"
          /\ SqlTime(appointments[i].end_time)
                 # SqlTime(appointments[i].start_time)
                     + 60 * services[appointments[i].service_id].duration_minutes

\* C29: every slot offered is bookable: in every state, for each start in
\* the list a slot query returns for (date, serviceId), a db.createAppointment
\* for the same date, start and service, run with no write in between and no
\* query throwing, succeeds.
C29_OfferedSlotsBookable ==
    \A date \in Dates, serviceId \in ServiceIds :
        LET db == DbGetAvailableTimeSlots(date, serviceId)
            route == RouteAvailableSlots(date, serviceId)
            offered == {db.availableSlots[i] : i \in 1..Len(db.availableSlots)}
                         \cup {route.availableSlots[i] :
                                 i \in 1..Len(route.availableSlots)}
        IN \A start \in offered :
              CreateAppointmentOutcome(
                  [serviceId |-> serviceId, appointmentDate |-> date,
                   startTime |-> start]).ok

\* no two live appointments of the ledger overlap
NoLiveOverlap ==
    \A i, j \in 1..Len(appointments) :
        (/\ i < j
         /\ appointments[i].status # "cancelled"
         /\ appointments[j].status # "cancelled")
        => ~RowsOverlap(appointments[i], appointments[j])

\* C30: when the calls of db.createAppointment run one at a time, from a
\* ledger without overlaps, every request whose interval overlaps a
\* non-cancelled appointment of its date under the half-open test is
\* rejected and leaves the ledger as it was, and the ledger never holds two
\* overlapping non-cancelled appointments.
C30_SequentialCallsNeverOverlap ==
    /\ []NoLiveOverlap
    /\ [][(/\ call'["r1"] # call["r1"]
           /\ call'["r1"].pc = "done"
           /\ CallOverlaps(call'["r1"]))
          => /\ ~call'["r1"].result.ok
             /\ appointments' = appointments]_vars

\* with two live appointments in the ledger, a request overlapping one of
\* them was refused
C30_Witness ==
    /\ call["r1"].pc = "done"
    /\ call["r1"].result.message = "Selected time slot is already booked"
    /\ CallOverlaps(call["r1"])
    /\ \E i, j \in 1..Len(appointments) :
          /\ i < j
          /\ appointments[i].status = "confirmed"
          /\ appointments[j].status = "confirmed"
          /\ appointments[i].appointment_date = appointments[j].appointment_date

(***************************************************************************)
(* The two slot queries side by side: claim C31.                           *)
(***************************************************************************)
\* C31: for every date that is not blocked, every active service and every
\* ledger, when both queries resolve the weekday of the date alike,
\* db.getAvailableTimeSlots returns the same sequence of start times as
\* GET /api/booking/available-slots.
C31_SlotQueriesAgree ==
    \A date \in Dates, serviceId \in ServiceIds :
        LET db == DbGetAvailableTimeSlots(date, serviceId)
            route == RouteAvailableSlots(date, serviceId)
        IN (/\ date \notin blocked_dates
            /\ Active(serviceId)
            /\ DbDayOfWeek(date, tz) = RouteDayOfWeek(date, tz)
            /\ db.outcome = "return" /\ route.outcome = "200")
           => db.availableSlots = route.availableSlots


(***************************************************************************)
(* The rate limiter of db.query: claim C32.                                *)
(***************************************************************************)
\* the timestamps of identifier i that lie in the window ending now, the
\* interval (now - windowMs, now]
InWindow(i) ==
    SelectSeq(rateLimitStore[i], LAMBDA timestamp : timestamp > now - windowMs)

\* C32: for every identifier, the timestamp list never holds more than
\* maxQueries (100) entries; a db.query call rejected with 'Rate limit
\* exceeded' does not reach pool.execute and leaves every list as it was; a
\* call that is admitted reaches pool.execute, adds its own timestamp to the
\* timestamps of its identifier that lie in the window of windowMs (60000)
\* ms ending now, dropping none of them, and is at most the 100th of that
\* window.
C32_AtMostMaxQueriesPerWindow ==
    /\ [](\A i \in Identifiers : Len(rateLimitStore[i]) <= maxQueries)
    /\ [][LET i == lastQuery'.identifier
          IN /\ lastQuery'.outcome = "thrown" =>
                    rateLimitStore' = rateLimitStore
             /\ rateLimitStore' # rateLimitStore =>
                    /\ lastQuery'.outcome = "executed"
                    /\ now' = now
                    /\ \A j \in Identifiers \ {i} :
                           rateLimitStore'[j] = rateLimitStore[j]
                    /\ rateLimitStore'[i] = Append(InWindow(i), now)
                    /\ Len(InWindow(i)) < maxQueries]_vars

\* a call is rejected at the end of the first window, the list full with
\* timestamps of both windows
C32_Witness ==
    /\ lastQuery = [identifier |-> "default", outcome |-> "thrown"]
    /\ now = windowMs
    /\ Len(rateLimitStore["default"]) = maxQueries
    /\ rateLimitStore["default"][1] = 1
    /\ rateLimitStore["default"][maxQueries] = windowMs
    /\ rateLimitStore["appointments-check"] # <<>>


(***************************************************************************)
(* The retry loop of sendBookingConfirmation: claim C33.                   *)
(***************************************************************************)
\* sendBookingConfirmation has returned or thrown
MailSettled == mail.pc \in {"resolved", "rejected"}

\* C33: sendBookingConfirmation calls sendMail at most 3 times; once an
\* attempt succeeds it returns and attempts nothing more; it throws after
\* a sendMail attempt only when the third attempt has failed, and then the
\* error of that third attempt; and, every sendMail settling, a call that
\* has started an attempt returns or throws.
C33_AtMostThreeAttempts ==
    /\ [](/\ mail.attempts <= 3
          /\ mail.sent <= 1
          /\ (mail.pc = "resolved" => mail.lastError = mail.attempts - 1)
          /\ (mail.pc = "rejected" /\ mail.attempts > 0) =>
                 /\ mail.attempts = 3
                 /\ mail.sent = 0
                 /\ mail.lastError = 3)
    /\ [][MailSettled => mail' = mail]_vars
    /\ (mail.pc = "sending" ~> MailSettled)

\* the third attempt has failed and its error is thrown
C33_Witness ==
    /\ mail.pc = "rejected"
    /\ mail.attempts = 3
    /\ mail.lastError = 3


(***************************************************************************)
(* The secured BookingController.getAvailableTimeSlots: the callback it    *)
(* hands to the timeSlotRateLimit middleware is an async function whose    *)
(* promise nobody awaits, so the try block of the handler has ended when   *)
(* the callback runs.                                                      *)
(***************************************************************************)
\* req.query.date: absent, '2025-06' (two fields), or a date
SlotRequestDates == Dates \cup {<<>>, <<2025, 6>>, <<2026, 7, 1>>}

\* req.query.serviceId: absent, an id with a blank in it, or an id
SlotRequestIds == ServiceIds \cup {"", "root canal"}

\* the slotReq answered with r
SlotAnswer(r) ==
    slotReq' = [slotReq EXCEPT !.pc = "responded", !.res = r,
                               !.responses = @ + 1]

\* the synchronous part of the callback: the 400 it answers (status 0:
\* none); of the ids above, those of ServiceIds match /^[a-zA-Z0-9_-]+$/
SlotValidation(date, serviceId, today) ==
    IF date = <<>> \/ serviceId = ""
        THEN SlotResponse(400, "Date and serviceId are required", <<>>, 0, 0)
    ELSE IF Len(date) # 3
        THEN SlotResponse(400, "Invalid date format. Use YYYY-MM-DD.",
                          <<>>, 0, 0)
    ELSE IF NewDateFromIso(date)
              < NewDateLocal(today[1], today[2] - 1, today[3], tz)
        THEN SlotResponse(400, "Cannot request time slots for past dates",
                          <<>>, 0, 0)
    ELSE IF NewDateFromIso(date)
              > NewDateLocal(today[1] + 1, today[2] - 1, today[3], tz)
        THEN SlotResponse(400,
                 "Cannot request time slots more than 1 year in advance",
                 <<>>, 0, 0)
    ELSE IF serviceId \notin ServiceIds
        THEN SlotResponse(400, "Invalid service ID format", <<>>, 0, 0)
    ELSE SlotResponse(0, "", <<>>, 0, 0)

\* GET with the query (date, serviceId) is handled on the day today, at its
\* local midnight.  limited: the request is over the limit of
\* timeSlotRateLimit, which answers 429 itself; otherwise the callback runs
\* up to its first await
HandleGetAvailableTimeSlots(date, serviceId, today, limited) ==
    /\ slotReq.pc = "idle"
    /\ LET invalid == SlotValidation(date, serviceId, today)
           rq == [slotReq EXCEPT !.date = date, !.serviceId = serviceId]
       IN IF limited
          THEN slotReq' = [rq EXCEPT !.pc = "responded",
                  !.res = SlotResponse(429,
                              "Too many time slot requests, please slow down.",
                              <<>>, 0, 0),
                  !.responses = @ + 1]
          ELSE IF invalid.status # 0
          THEN slotReq' = [rq EXCEPT !.pc = "responded", !.res = invalid,
                                     !.responses = @ + 1]
          ELSE slotReq' = [rq EXCEPT !.pc = "get-service"]
    /\ UNCHANGED <<services, business_hours, blocked_dates, appointments, tz,
                   call, started, slotQuery, datesQuery, req, mail,
                   limiterVars, timeText>>

\* await ServicesModel.getServiceById(sanitizedServiceId) returns
SlotServiceReturns ==
    /\ slotReq.pc = "get-service"
    /\ IF ~GetServiceById(slotReq.serviceId).found
       THEN SlotAnswer(SlotResponse(400, "Invalid service selected",
                                    <<>>, 0, 0))
       ELSE slotReq' = [slotReq EXCEPT !.pc = "get-slots"]
    /\ UNCHANGED <<services, business_hours, blocked_dates, appointments, tz,
                   call, started, slotQuery, datesQuery, req, mail,
                   limiterVars, timeText>>

\* await BookingModel.getAvailableTimeSlots(sanitizedDate,
\* sanitizedServiceId) returns, and res.json sends the slots; or it throws,
\* which rejects the promise of the callback: no catch block is active and
\* nothing is sent
SlotQueryReturns ==
    /\ slotReq.pc = "get-slots"
    /\ LET r == DbGetAvailableTimeSlots(slotReq.date, slotReq.serviceId)
           availableSlots == r.availableSlots
           limitedSlots ==
               SubSeq(availableSlots, 1, IF Len(availableSlots) < 50
                                         THEN Len(availableSlots) ELSE 50)
       IN IF r.outcome = "return"
          THEN SlotAnswer(SlotResponse(200, "", limitedSlots,
                                       Len(availableSlots), Len(limitedSlots)))
          ELSE slotReq' = [slotReq EXCEPT !.pc = "unhandled"]
    /\ UNCHANGED <<services, business_hours, blocked_dates, appointments, tz,
                   call, started, slotQuery, datesQuery, req, mail,
                   limiterVars, timeText>>

\* db.query throws inside getServiceById or getAvailableTimeSlots (storage
\* error, 'Rate limit exceeded'): the promise of the callback rejects
SlotModelCallThrows ==
    /\ slotReq.pc \in {"get-service", "get-slots"}
    /\ slotReq' = [slotReq EXCEPT !.pc = "unhandled"]
    /\ UNCHANGED <<services, business_hours, blocked_dates, appointments, tz,
                   call, started, slotQuery, datesQuery, req, mail,
                   limiterVars, timeText>>

\* every weekday open from minute open to minute close of the day
HoursDay(open, close) ==
    [d \in {dayNames[i] : i \in 1..7} |->
        HoursRow(TRUE, Lit(open \div 60, open % 60),
                 Lit(close \div 60, close % 60))]

\* business hours of the slot requests: the week, a day without times, and
\* days from the shortest to the longest
SlotHours ==
    {HoursWeek, HoursNoTimes}
        \cup {HoursDay(o, c) : <<o, c>> \in {<<0, 30>>, <<0, 660>>,
                                              <<0, 1439>>, <<540, 660>>,
                                              <<540, 1439>>}}

SlotsInit ==
    /\ services \in {[ServiceRows EXCEPT !.cleaning.duration_minutes = d] :
                        d \in {1, 30, 480}}
    /\ business_hours \in SlotHours
    /\ blocked_dates \in {{}, {Sunday1}}
    /\ appointments \in ControllerLedgers
    /\ tz \in TzOffsets
    /\ call = [p \in Procs |-> Idle]
    /\ started = 0
    /\ slotQuery = NoQuery
    /\ Quiet

SlotsNext ==
    \/ \E date \in SlotRequestDates, serviceId \in SlotRequestIds,
          today \in Todays, limited \in BOOLEAN :
           HandleGetAvailableTimeSlots(date, serviceId, today, limited)
    \/ SlotServiceReturns
    \/ SlotQueryReturns
    \/ SlotModelCallThrows

SpecSlots == SlotsInit /\ [][SlotsNext]_vars

\* the event loop runs the continuation of every await that has settled, and
\* every query settles
SpecSlotsFair ==
    /\ SpecSlots
    /\ WF_vars(SlotServiceReturns \/ SlotQueryReturns \/ SlotModelCallThrows)

\* C34: every request handled by the secured getAvailableTimeSlots is
\* answered, and answered once; a request whose service lookup or slot
\* query has failed is answered 500 'Unable to fetch available time slots'.
C34_EveryRequestAnswered ==
    /\ [](slotReq.responses <= 1)
    /\ [](slotReq.pc = "unhandled" => slotReq.res.status = 500)
    /\ (slotReq.pc # "idle" ~> slotReq.responses = 1)


\* C36: with business hours 0 <= open < close < 1440,
\* db.getAvailableTimeSlots returns at most 48 slots for every date and
\* service, so that the cap of 50 slots of the secured controller cuts
\* nothing: a 200 response carries the full list, and returned = totalSlots.
C36_CapNeverTruncates ==
    /\ \A date \in Dates, serviceId \in ServiceIds :
           LET r == DbGetAvailableTimeSlots(date, serviceId)
           IN r.outcome = "return" => Len(r.availableSlots) <= 48
    /\ slotReq.res.status = 200 =>
           /\ slotReq.res.returned = slotReq.res.totalSlots
           /\ slotReq.res.availableSlots =
                  DbGetAvailableTimeSlots(slotReq.date,
                                          slotReq.serviceId).availableSlots

\* a day open 00:00-23:59 and a service of one minute: 48 slots are returned
C36_Witness ==
    /\ slotReq.res.status = 200
    /\ slotReq.res.totalSlots = 48
    /\ slotReq.res.returned = 48
    /\ Len(slotReq.res.availableSlots) = 48


(***************************************************************************)
(* Long services late in the day: claim C35.                               *)
(***************************************************************************)
DayInit ==
    /\ services \in {[ServiceRows EXCEPT !.cleaning.duration_minutes = d] :
                        d \in {15, 360, 480}}
    /\ business_hours = HoursWeek
    /\ blocked_dates = {}
    /\ appointments \in ControllerLedgers
    /\ tz = 0
    /\ call = [p \in Procs |-> Idle]
    /\ started = 0
    /\ slotQuery = NoQuery
    /\ Quiet

\* one request is served by the secured controller, its start time among
\* the earliest and the latest the validator accepts
DayNext ==
    \/ \E b \in [service : {"cleaning", "crown"}, date : {Monday2},
                  time : {LitShort(8, 0), Lit(17, 30), LitShort(17, 59)}] :
           HandleCreateAppointment("secured", b)
    \/ GetServiceByIdReturns
    \/ \E recentBookingCheck \in CheckRecentBooking :
           CheckRecentBookingReturns(recentBookingCheck)
    \/ ModelCallThrows
    \/ ServiceLookup("r1")
    \/ AvailabilityCheck("r1")
    \/ BlockedCheck("r1")
    \/ AppointmentInsert("r1")
    \/ QueryThrows("r1")
    \/ \E prepared \in BOOLEAN, configured \in BOOLEAN :
           DbCreateAppointmentReturns(prepared, configured)
    \/ \E configured \in BOOLEAN : CheckEmailRateLimitReturns(configured)
    \/ SendMailResolves
    \/ SendMailRejects
    \/ RetryDelayElapses
    \/ EmailTimeout

SpecDay == DayInit /\ [][DayNext]_vars

\* C35: every appointment of the ledger lies within its calendar date: its
\* end_time is at most 24:00:00 and its start_time is before its end_time
\* as 'HH:MM:SS' strings.
C35_AppointmentsWithinTheirDay ==
    \A i \in 1..Len(appointments) :
        /\ SqlTime(appointments[i].end_time) <= 24 * 3600
        /\ StrLess(appointments[i].start_time, appointments[i].end_time)


(***************************************************************************)
(* The time formats of date.utils.js: a 24-hour text shown in the 12-hour  *)
(* format and parsed back.                                                 *)
(***************************************************************************)
\* formatTimeFor12Hour(timeStr) of date.utils.js
formatTimeFor12Hour(timeStr) ==
    IF ~Includes(timeStr, 58) THEN <<>>
    ELSE LET hm == SplitColon(timeStr)
         IN IF IsNaN(hm[1]) \/ IsNaN(hm[2]) THEN <<>>
            ELSE LET hours == ToNumber(hm[1])
                     minutes == ToNumber(hm[2])
                     period == IF hours >= 12 THEN PM ELSE AM
                     hour12 == IF hours % 12 # 0 THEN hours % 12 ELSE 12
                 IN NumToString(hour12) \o Colon
                        \o PadStart2(NumToString(minutes)) \o <<32>> \o period

\* the texts 'hh:mm:00' of the times of a day
TimesOfDay == {Lit(h, m) : h \in 0..23, m \in 0..59}

\* formatTimeFor12Hour is applied to the input
FormatTimeFor12Hour ==
    /\ timeText.pc = "input"
    /\ timeText' = [timeText EXCEPT !.pc = "displayed",
                        !.display = formatTimeFor12Hour(timeText.input)]
    /\ UNCHANGED <<services, business_hours, blocked_dates, appointments, tz,
                   call, started, slotQuery, datesQuery, req, mail, slotReq,
                   limiterVars>>

\* formatTimeString is applied to the 12-hour text, without a period argument
FormatTimeString ==
    /\ timeText.pc = "displayed"
    /\ timeText' = [timeText EXCEPT !.pc = "parsed",
                        !.back = formatTimeString(timeText.display, <<>>)]
    /\ UNCHANGED <<services, business_hours, blocked_dates, appointments, tz,
                   call, started, slotQuery, datesQuery, req, mail, slotReq,
                   limiterVars>>

TimeInit ==
    /\ services = ServiceRows
    /\ business_hours = HoursWeek
    /\ blocked_dates = {}
    /\ appointments = <<>>
    /\ tz = 0
    /\ call = [p \in Procs |-> Idle]
    /\ started = 0
    /\ slotQuery = NoQuery
    /\ datesQuery = NoDates
    /\ req = NoRequest
    /\ mail = NoMail
    /\ slotReq = NoSlotRequest
    /\ rateLimitStore = EmptyStore
    /\ now = 0
    /\ lastQuery = NoDbQuery
    /\ \E t \in TimesOfDay : timeText = [NoTime EXCEPT !.pc = "input",
                                                       !.input = t]

TimeNext == FormatTimeFor12Hour \/ FormatTimeString

SpecTime == TimeInit /\ [][TimeNext]_vars

\* C37: for every hour 0..23 and minute 0..59,
\* formatTimeString(formatTimeFor12Hour('hh:mm:00')) is 'hh:mm:00' again,
\* zero-padded; the 12-hour text in between has the hour 12 for the hours 0
\* and 12, the hour less 12 for the later hours, and the period PM from
\* 12:00 on.
C37_TwelveHourRoundTrip ==
    /\ timeText.pc = "parsed" =>
           /\ timeText.back = timeText.input
           /\ timeText.back \in TimesOfDay
    /\ timeText.pc \in {"displayed", "parsed"} =>
           \E h \in 0..23, m \in 0..59 :
               /\ timeText.input = Lit(h, m)
               /\ timeText.display =
                      NumToString(IF h = 0 THEN 12
                                  ELSE IF h > 12 THEN h - 12 ELSE h)
                          \o SubSeq(Lit(h, m), 3, 5) \o <<32>>
                          \o (IF h >= 12 THEN PM ELSE AM)

\* 00:05:00 is shown as '12:05 AM' and parsed back to 00:05:00
C37_Witness ==
    /\ timeText.pc = "parsed"
    /\ timeText.input = Lit(0, 5)
    /\ timeText.display = <<49, 50, 58, 48, 53, 32, 65, 77>>
    /\ timeText.back = Lit(0, 5)

====
